---- MODULE Spec2Model ----
(***************************************************************************)
(* Fleet supervision layer of bonzo-ai-agents:                             *)
(*   - worker-health-monitor/main.py : prober, classifier, availability    *)
(*     estimator, bounded history;                                         *)
(*   - guardian-agent/main.py : policy evaluator, escalation state machine,*)
(*     emergency stop.                                                     *)
(* Both services keep their state in a Redis keyed store; every Redis call *)
(* is synchronous, so the only suspension points of a coroutine are its    *)
(* awaited HTTP calls and sleeps.  One action of the model is the code     *)
(* that runs between two suspension points.                                *)
(*                                                                         *)
(* Numbers: response times are whole milliseconds; uptime_percent is kept  *)
(* in hundredths of a percent (the store holds it formatted "%.2f"), so    *)
(* 100.00 is 10000 and 95.25 is 9525.                                      *)
(***************************************************************************)
EXTENDS Integers, Sequences, FiniteSets, TLC

VARIABLES
    WORKERS,      \* worker monitor: the registered probe targets (names)
    wstore,       \* worker monitor: Redis hashes worker:status:<name>
    whistory,     \* worker monitor: Redis lists worker:history:<name>
    wpc,          \* worker monitor: position of each check_worker_health task
    walerts,      \* worker monitor: send_alert calls per target
    wrestarts,    \* worker monitor: restart_worker calls per target
    wtrace,       \* worker monitor: per target, the probes completed so far
    wlog,         \* worker monitor: per target, every history entry ever pushed
    nprobes,      \* worker monitor: number of probes completed in this run
    EMERGENCY_STOP_ENABLED,  \* guardian: the feature flag read from the environment
    gstore,       \* guardian: Redis hashes guardian:agent:<name>
    gviolations,  \* guardian: Redis lists guardian:violations:<name>
    gpc,          \* guardian: position of each perform_agent_monitoring pass
    gstop,        \* guardian: position of the /stop handler
    gresp,        \* guardian: the last response of the /stop handler
    galerts,      \* guardian: send_alert calls per agent
    gseen,        \* guardian: the response a pass consumed last
    glog,         \* guardian: per agent, every violation ever logged
    npasses,      \* guardian: number of passes started in this run
    nstops,       \* guardian: number of stop requests received in this run
    loop,         \* both: where the background loop of each service is
    waiting,      \* both: services whose manual trigger has not been answered yet
    delivered,    \* both: the sender of the last alert and how its send_slack_notification ended
    vresp,        \* guardian: the last response of /violations
    qresp,        \* both: the response of a read endpoint that is being sent
    now           \* datetime.now(), counted in store events

wvars == <<WORKERS, wstore, whistory, wpc, walerts, wrestarts, wtrace, wlog, nprobes>>
gvars == <<EMERGENCY_STOP_ENABLED, gstore, gviolations, gpc, gstop, gresp, galerts, gseen, glog, npasses, nstops>>
svars == <<loop, waiting, delivered, vresp, qresp>>
vars == <<wvars, gvars, svars, now>>

(***************************************************************************)
(* Bounds of the model                                                     *)
(***************************************************************************)
MaxProbes == 3         \* SpecProbe: probes completed in one run
MaxCycleProbes == 4    \* SpecWorker: probes completed in one run
Prefill == 98          \* entries of the history a prefilled run starts with
MaxPasses == 1         \* SpecGuardian: monitoring passes started in one run
MaxStops == 1          \* SpecGuardian: stop requests received in one run
VPrefill == 99         \* SpecViolations: passes that ran before the run starts
MaxDowns == 140        \* SpecUptime: probes completed in one run
MaxLoopProbes == 2     \* SpecLoop, SpecDelivery: probes completed in one run
MaxAlerts == 3         \* SpecDelivery: alerts sent by both services in one run
MaxHours == 3          \* SpecListing: the largest hours parameter of /violations

(***************************************************************************)
(* Redis list helpers                                                      *)
(***************************************************************************)
Min(a, b) == IF a < b THEN a ELSE b

\* LPUSH key value: the new element becomes index 0
LPush(list, e) == <<e>> \o list

\* LTRIM key 0 stop: keep the elements at indexes 0..stop
LTrim(list, stop) == SubSeq(list, 1, Min(Len(list), stop + 1))

Reverse(s) == [i \in 1..Len(s) |-> s[Len(s) + 1 - i]]

\* the last k elements of s, in order
LastK(s, k) == SubSeq(s, Len(s) - Min(Len(s), k) + 1, Len(s))

(***************************************************************************)
(* Worker health monitor                                                   *)
(***************************************************************************)
WorkerNames == {"hub", "pumo-api"}
Cycles == {"periodic", "manual"}

HistoryMax == 99          \* redis_client.ltrim(history_key, 0, 99)

SeedUptime == 10000       \* 100.0, the uptime of a never-checked target

Exception == [kind |-> "exception", status_code |-> 0, response_time_ms |-> 0]
Response(code, ms) == [kind |-> "response", status_code |-> code, response_time_ms |-> ms]

\* probe outcomes around the classifier's thresholds
Latencies == {250, 500, 999, 1000, 2999, 3000}
Outcomes == {Response(c, ms) : c \in {200, 503}, ms \in Latencies} \cup {Exception}

\* one outcome per class, for the concurrent cycles
CycleOutcomes == {Response(200, 250), Response(200, 1500), Response(503, 250), Exception}

\* the classifier with the thresholds compared by <=
ClassifyResponseInclusive(code, ms) ==
    IF code = 200 /\ ms <= 1000 THEN "healthy"
    ELSE IF code = 200 /\ ms <= 3000 THEN "degraded"
    ELSE "down"

\* if status_code == 200 and response_time_ms < 1000 ... elif ... < 3000 ... else
ClassifyResponse(code, ms) ==
    IF code = 200 /\ ms < 1000 THEN "healthy"
    ELSE IF code = 200 /\ ms < 3000 THEN "degraded"
    ELSE "down"

\* is_up = 1.0 if status in ["healthy", "degraded"] else 0.0
IsUp(status) == IF status \in {"healthy", "degraded"} THEN 1 ELSE 0

\* the previous uptime read before the await of the probe: when another
\* probe of the target completed meanwhile, the value that probe started from
PrevUptimeReadEarly(store, t) ==
    LET n == Len(wtrace[t])
    IN IF n > 0 /\ wtrace[t][n].had THEN wtrace[t][n].stored ELSE SeedUptime

\* the previous uptime taken to be the seed whatever the store holds
PrevUptimeIgnoresStore(store, t) == SeedUptime

\* prev_uptime: the stored value, 100.0 without a record
PrevUptime(store, t) ==
    IF t \in DOMAIN store THEN store[t].uptime_percent ELSE SeedUptime

(* f"{x:.2f}" of the double x.  The argument n is the decimal value of the  *)
(* expression in units of 1e-4 (prev in hundredths times 95, plus 50000    *)
(* when up).  Away from a tie the printed value is the nearest hundredth.  *)
(* At a decimal tie (..50) the double is not the tie itself: the product   *)
(* with the double 0.95 lands just below or just above it.  TiesUp lists   *)
(* the numerators, over all stored values 0.00..100.00, whose double lies  *)
(* above the tie (IEEE-754 binary64, round-to-nearest-even).               *)
TiesUp == {
    950, 23750, 35150, 46550, 52850, 54150, 56050, 56650, 58550, 63650,
    66150, 69950, 73750, 78850, 79450, 84550, 85150, 87050, 88350, 90250,
    90850, 96550, 97850, 100350, 103550, 106050, 111750, 113650, 116850, 118750,
    126950, 128850, 132050, 134550, 135850, 138350, 140250, 145350, 147850, 151050,
    153550, 162450, 166850, 168750, 171950, 173850, 174450, 180150, 183350, 185850,
    191550, 192850, 195350, 197250, 200450, 201050, 202950, 204250, 209950, 212450,
    213750, 219450, 221950, 223850, 230850, 233350, 240350, 242850, 247950, 250450,
    254250, 257450, 259950, 263750, 266950, 269450, 278350, 280850, 287850, 290350,
    295450, 297950, 304950, 307450, 308750, 310650, 314450, 316950, 320150, 320750,
    322650, 323950, 328350, 329650, 334050, 337250, 342950, 345450, 348650, 354950,
    358750, 361950, 364450, 367650, 368250, 370150, 371450, 373950, 377150, 379650,
    384750, 387250, 390450, 392950, 396150, 398650, 403750, 409450, 411950, 415150,
    417650, 421450, 424650, 427150, 432250, 434750, 437950, 440450, 443650, 446150,
    453750, 456950, 459450, 462650, 465150, 472150, 474650, 482250, 485450, 487950,
    491150, 493650, 498750, 504450, 506950, 510150, 512650, 519650, 522150, 532950,
    535450, 538650, 541150, 548750, 551950, 554450, 557650, 560150, 567150, 569650,
    580450, 582950, 586150, 588650, 593750, 599450, 601950, 605150, 607650, 616550,
    617150, 626050, 630450, 633650, 636150, 641850, 643750, 650750, 652650, 655150,
    662150, 662750, 664050, 664650, 666550, 671650, 673550, 676050, 683050, 683650,
    685550, 688750, 689350, 698250, 700150, 700750, 702650, 709650, 711550, 712150,
    714050, 719150, 721050, 721650, 723550, 730550, 733050, 738750, 745750, 747650,
    748250, 750150, 757150, 759050, 759650, 761550, 768550, 769150, 771050, 778050,
    780550, 783750, 793250, 795150, 795750, 797650, 804650, 806550, 807150, 809050,
    816050, 818550, 825550, 828050, 833750, 840750, 842650, 843250, 845150, 852150,
    854050, 854650, 856550, 863550, 866050, 873050, 875550, 878750, 888250, 890150,
    890750, 892650, 899650, 901550, 902150, 904050, 911050, 913550, 920550, 923050,
    928750, 937650, 938250, 940150, 947150, 949050, 949650, 951550, 961050, 970550,
    987650, 997150, 999050
    }

Fmt2(n) ==
    LET q == n \div 100
        r == n % 100
    IN IF r > 50 \/ (r = 50 /\ n \in TiesUp) THEN q + 1 ELSE q

\* the estimator weighting the current sample 10 % instead of 5 %
NewUptimeJumps(prev, status) == Fmt2(prev * 90 + IsUp(status) * 100000)

\* the estimator without the decay of the previous value
NewUptimeNoDecay(prev, status) == Fmt2(prev * 100 + IsUp(status) * 50000)

\* new_uptime = prev_uptime * 0.95 + is_up * 5.0, written as f"{new_uptime:.2f}"
NewUptime(prev, status) == Fmt2(prev * 95 + IsUp(status) * 50000)

\* the exception path adding the 5.0 of an up sample
NewUptimeUnreachableAdds(prev) == Fmt2(prev * 95 + 50000)

\* the exception path decaying by 0.90
NewUptimeUnreachableFaster(prev) == Fmt2(prev * 90)

\* exception path: new_uptime = prev_uptime * 0.95
NewUptimeUnreachable(prev) == Fmt2(prev * 95)

\* history_entry of the response path
HistoryEntry(ts, status, o) ==
    [timestamp |-> ts, status |-> status,
     response_time_ms |-> o.response_time_ms, status_code |-> o.status_code]

\* the history trimmed one index too far
PushHistoryKeepsOneMore(list, e) == LTrim(LPush(list, e), HistoryMax + 1)

\* redis_client.lpush(history_key, history_entry); redis_client.ltrim(history_key, 0, 99)
PushHistory(list, e) == LTrim(LPush(list, e), HistoryMax)

\* hset(worker_key, mapping=...) of the response path
ResponseRecord(status, o, uptime) ==
    [status |-> status, response_time_ms |-> o.response_time_ms,
     uptime_percent |-> uptime, error |-> ""]

\* the exception path recording the time it waited for the target
UnreachableRecordTimed(uptime) ==
    [status |-> "down", response_time_ms |-> 30000,
     uptime_percent |-> uptime, error |-> "unreachable"]

\* hset(worker_key, mapping=...) of the exception path
UnreachableRecord(uptime) ==
    [status |-> "down", response_time_ms |-> 0,
     uptime_percent |-> uptime, error |-> "unreachable"]

\* what the trace keeps of a completed probe: its outcome, and whether a
\* record existed before it and with which uptime
TraceEntry(t, o) ==
    [out |-> o, had |-> t \in DOMAIN wstore,
     stored |-> IF t \in DOMAIN wstore THEN wstore[t].uptime_percent ELSE 0]

Put(store, k, v) == [x \in DOMAIN store \cup {k} |-> IF x = k THEN v ELSE store[x]]

\* the two services, each with one background loop
Services == {"worker", "guardian"}

\* the background loop moves only with its own cycle c = "periodic": it is
\* "idle" before its first cycle and in the sleep after a cycle that returned,
\* "cycle" while it awaits the cycle, "backoff" in the sleep after a cycle
\* that raised
LoopAt(svc, c, at) == IF c = "periodic" THEN [loop EXCEPT ![svc] = at] ELSE loop

\* send_slack_notification: the POST succeeded, the POST raised (caught and
\* printed), or SLACK_WEBHOOK_URL is unset (printed)
DeliveryOutcomes == {"delivered", "failed", "no_sink"}

\* the senders of alerts: check_worker_health, a guardian pass, the /stop
\* handler; none of them has sent one yet
NotDelivered == [by |-> "", outcome |-> ""]

CycleIdle(c) == \A t \in WORKERS : wpc[c][t] = "idle"

\* perform_health_checks: asyncio.gather starts one check_worker_health per
\* worker; each runs up to its await client.get(worker_url)
perform_health_checks(c, maxp) ==
    /\ CycleIdle(c)
    /\ nprobes + Cardinality(WORKERS) * Cardinality({d \in Cycles : ~CycleIdle(d)})
          + Cardinality(WORKERS) <= maxp
    /\ wpc' = [wpc EXCEPT ![c] = [t \in WorkerNames |-> IF t \in WORKERS THEN "probing" ELSE "idle"]]
    /\ loop' = LoopAt("worker", c, "cycle")
    /\ UNCHANGED <<WORKERS, wstore, whistory, walerts, wrestarts, wtrace, wlog, now, nprobes, gvars,
                   waiting, delivered, vresp, qresp>>

\* a try branch that ends without alert or restart when the response is down
check_worker_health_response_quiet(c, t, o) ==
    /\ wpc[c][t] = "probing"
    /\ o.kind = "response"
    /\ LET status == ClassifyResponse(o.status_code, o.response_time_ms)
           new_uptime == NewUptime(PrevUptime(wstore, t), status)
           entry == HistoryEntry(now + 1, status, o)
       IN /\ wstore' = Put(wstore, t, ResponseRecord(status, o, new_uptime))
          /\ whistory' = [whistory EXCEPT ![t] = PushHistory(@, entry)]
          /\ wlog' = [wlog EXCEPT ![t] = Append(@, entry)]
    /\ wpc' = [wpc EXCEPT ![c][t] = "done"]
    /\ wtrace' = [wtrace EXCEPT ![t] = Append(@, TraceEntry(t, o))]
    /\ now' = now + 1
    /\ nprobes' = nprobes + 1
    /\ UNCHANGED <<WORKERS, walerts, wrestarts, gvars, svars>>

\* check_worker_health, try branch: client.get returned a response
check_worker_health_response(c, t, o) ==
    /\ wpc[c][t] = "probing"
    /\ o.kind = "response"
    /\ LET status == ClassifyResponse(o.status_code, o.response_time_ms)
           new_uptime == NewUptime(PrevUptime(wstore, t), status)
           entry == HistoryEntry(now + 1, status, o)
       IN /\ wstore' = Put(wstore, t, ResponseRecord(status, o, new_uptime))
          /\ whistory' = [whistory EXCEPT ![t] = PushHistory(@, entry)]
          /\ wlog' = [wlog EXCEPT ![t] = Append(@, entry)]
          /\ IF status = "down"
             THEN /\ wpc' = [wpc EXCEPT ![c][t] = "alert"]
                  /\ walerts' = [walerts EXCEPT ![t] = @ + 1]
             ELSE /\ wpc' = [wpc EXCEPT ![c][t] = "done"]
                  /\ UNCHANGED walerts
    /\ wtrace' = [wtrace EXCEPT ![t] = Append(@, TraceEntry(t, o))]
    /\ now' = now + 1
    /\ nprobes' = nprobes + 1
    /\ UNCHANGED <<WORKERS, wrestarts, gvars, svars>>

\* an except branch that alerts before it has written the record
check_worker_health_exception_alerts_first(c, t, o) ==
    /\ wpc[c][t] = "probing"
    /\ o.kind = "exception"
    /\ wpc' = [wpc EXCEPT ![c][t] = "alert"]
    /\ walerts' = [walerts EXCEPT ![t] = @ + 1]
    /\ wtrace' = [wtrace EXCEPT ![t] = Append(@, TraceEntry(t, o))]
    /\ now' = now + 1
    /\ nprobes' = nprobes + 1
    /\ UNCHANGED <<WORKERS, wstore, whistory, wlog, wrestarts, gvars, svars>>

\* an except branch whose failure ends the other checks of the cycle unprobed
check_worker_health_exception_cancels(c, t, o) ==
    /\ wpc[c][t] = "probing"
    /\ o.kind = "exception"
    /\ LET new_uptime == NewUptimeUnreachable(PrevUptime(wstore, t))
       IN wstore' = Put(wstore, t, UnreachableRecord(new_uptime))
    /\ wpc' = [wpc EXCEPT ![c] = [u \in WorkerNames |->
                  IF u = t THEN "alert"
                  ELSE IF wpc[c][u] = "probing" THEN "done" ELSE wpc[c][u]]]
    /\ walerts' = [walerts EXCEPT ![t] = @ + 1]
    /\ wtrace' = [wtrace EXCEPT ![t] = Append(@, TraceEntry(t, o))]
    /\ now' = now + 1
    /\ nprobes' = nprobes + 1
    /\ UNCHANGED <<WORKERS, whistory, wlog, wrestarts, gvars, svars>>

\* check_worker_health, except branch: client.get raised
check_worker_health_exception(c, t, o) ==
    /\ wpc[c][t] = "probing"
    /\ o.kind = "exception"
    /\ LET new_uptime == NewUptimeUnreachable(PrevUptime(wstore, t))
       IN wstore' = Put(wstore, t, UnreachableRecord(new_uptime))
    /\ wpc' = [wpc EXCEPT ![c][t] = "alert"]
    /\ walerts' = [walerts EXCEPT ![t] = @ + 1]
    /\ wtrace' = [wtrace EXCEPT ![t] = Append(@, TraceEntry(t, o))]
    /\ now' = now + 1
    /\ nprobes' = nprobes + 1
    /\ UNCHANGED <<WORKERS, whistory, wlog, wrestarts, gvars, svars>>

\* a restart skipped while another cycle is restarting the same target
send_alert_returns_guarded(c, t, d) ==
    /\ wpc[c][t] = "alert"
    /\ delivered' = [by |-> "worker", outcome |-> d]
    /\ IF \E e \in Cycles \ {c} : wpc[e][t] = "restart"
       THEN /\ wpc' = [wpc EXCEPT ![c][t] = "done"]
            /\ UNCHANGED wrestarts
       ELSE /\ wpc' = [wpc EXCEPT ![c][t] = "restart"]
            /\ wrestarts' = [wrestarts EXCEPT ![t] = @ + 1]
    /\ UNCHANGED <<WORKERS, wstore, whistory, walerts, wtrace, wlog, now, nprobes, gvars,
                   loop, waiting, vresp, qresp>>

\* await send_alert(...) returns (delivered, failed or only printed);
\* restart_worker is entered
send_alert_returns(c, t, d) ==
    /\ wpc[c][t] = "alert"
    /\ delivered' = [by |-> "worker", outcome |-> d]
    /\ wpc' = [wpc EXCEPT ![c][t] = "restart"]
    /\ wrestarts' = [wrestarts EXCEPT ![t] = @ + 1]
    /\ UNCHANGED <<WORKERS, wstore, whistory, walerts, wtrace, wlog, now, nprobes, gvars,
                   loop, waiting, vresp, qresp>>

\* restart_worker returns after its notification and asyncio.sleep(2)
restart_worker_returns(c, t) ==
    /\ wpc[c][t] = "restart"
    /\ wpc' = [wpc EXCEPT ![c][t] = "done"]
    /\ UNCHANGED <<WORKERS, wstore, whistory, walerts, wrestarts, wtrace, wlog, now, nprobes, gvars, svars>>

\* a loop that ends when its cycle raises
perform_health_checks_exits(c) ==
    /\ \A t \in WORKERS : wpc[c][t] = "done"
    /\ wpc' = [wpc EXCEPT ![c] = [t \in WorkerNames |-> "idle"]]
    /\ loop' = LoopAt("worker", c, "exited")
    /\ UNCHANGED <<WORKERS, wstore, whistory, walerts, wrestarts, wtrace, wlog, now, nprobes, gvars,
                   waiting, delivered, vresp, qresp>>

\* asyncio.gather(*tasks) has returned and perform_health_checks raises as it
\* leaves its async with; background_monitoring catches it at except Exception
\* and sleeps 60 s (a BackgroundTasks cycle just ends)
perform_health_checks_raises(c) ==
    /\ \A t \in WORKERS : wpc[c][t] = "done"
    /\ wpc' = [wpc EXCEPT ![c] = [t \in WorkerNames |-> "idle"]]
    /\ loop' = LoopAt("worker", c, "backoff")
    /\ UNCHANGED <<WORKERS, wstore, whistory, walerts, wrestarts, wtrace, wlog, now, nprobes, gvars,
                   waiting, delivered, vresp, qresp>>

\* asyncio.gather(*tasks) returns: every task of the cycle has finished;
\* background_monitoring goes to asyncio.sleep(CHECK_INTERVAL_SECONDS)
gather_returns(c) ==
    /\ \A t \in WORKERS : wpc[c][t] = "done"
    /\ wpc' = [wpc EXCEPT ![c] = [t \in WorkerNames |-> "idle"]]
    /\ loop' = LoopAt("worker", c, "idle")
    /\ UNCHANGED <<WORKERS, wstore, whistory, walerts, wrestarts, wtrace, wlog, now, nprobes, gvars,
                   waiting, delivered, vresp, qresp>>

(***************************************************************************)
(* Guardian agent                                                          *)
(***************************************************************************)
AGENTS == <<
    [name |-> "deployment-coordinator", type |-> "orchestration"],
    [name |-> "cost-optimizer", type |-> "analytics"],
    [name |-> "worker-health-monitor", type |-> "monitoring"] >>

AgentNames == {AGENTS[i].name : i \in DOMAIN AGENTS}
StopNames == AgentNames \cup {"ghost-agent"}
Passes == {"periodic", "manual"}

\* POLICIES
max_deployments_per_hour == 10
max_cost_per_day == 1000             \* 10.0 dollars, in cents
max_failed_health_checks == 5

ViolationsMax == 99                  \* redis_client.ltrim(violations_key, 0, 99)

\* outcome of client.get(f"{agent_url}/health")
HealthOutcomes == {"200", "503", "exception"}

(* Outcome of the metrics fetch of a policy check.  ok is FALSE when the    *)
(* request raised, the body did not decode or the status was not 200.      *)
(* deployments is the list of the ages, in minutes, of the started_at      *)
(* stamps; total_cost is in cents.  A field the body does not carry has    *)
(* the default of data.get.                                                *)
Metrics(ok, deployments, total_cost, down) ==
    [ok |-> ok, deployments |-> deployments, total_cost |-> total_cost, down |-> down]

FetchFailed == Metrics(FALSE, <<>>, 0, 0)

\* n deployments started 5 minutes ago followed by m started exactly one hour ago
Ages(n, m) == [i \in 1..(n + m) |-> IF i <= n THEN 5 ELSE 60]

MetricsOutcomes(type) ==
    IF type = "orchestration"
    THEN {FetchFailed, Metrics(TRUE, Ages(10, 1), 0, 0), Metrics(TRUE, Ages(11, 0), 0, 0)}
    ELSE IF type = "analytics"
    THEN {FetchFailed, Metrics(TRUE, <<>>, 1000, 0), Metrics(TRUE, <<>>, 1001, 0)}
    ELSE {FetchFailed, Metrics(TRUE, <<>>, 0, 5), Metrics(TRUE, <<>>, 0, 6)}

\* recent = [d for d in deployments if started_at > now - timedelta(hours=1)]
Recent(deployments) == {i \in DOMAIN deployments : deployments[i] < 60}

\* the violation a policy check logs for a fetched body, or none
DeploymentViolated(m) == m.ok /\ Cardinality(Recent(m.deployments)) > max_deployments_per_hour
\* the cost threshold compared by >=
CostViolatedInclusive(m) == m.ok /\ m.total_cost >= max_cost_per_day
CostViolated(m) == m.ok /\ m.total_cost > max_cost_per_day
\* the down-count threshold compared by >=
MonitoringViolatedInclusive(m) == m.ok /\ m.down >= max_failed_health_checks
MonitoringViolated(m) == m.ok /\ m.down > max_failed_health_checks

PolicyViolation(policy, severity, ts) ==
    [policy |-> policy, severity |-> severity, timestamp |-> ts]

\* log_violation trimming one index too far
log_violation_keeps_one_more(list, policy, severity, ts) ==
    LTrim(LPush(list, PolicyViolation(policy, severity, ts)), ViolationsMax + 1)

\* log_violation: lpush + ltrim(0, 99)
log_violation(list, policy, severity, ts) ==
    LTrim(LPush(list, PolicyViolation(policy, severity, ts)), ViolationsMax)

\* the mappings written by hset(agent_key, ...)
\* check_agent_behavior writing the level between low and high
HealthyRecordMedium == [status |-> "healthy", threat_level |-> "medium"]
HealthyRecord == [status |-> "healthy", threat_level |-> "low"]
\* flag_suspicious_behavior writing the highest threat level
SuspiciousRecordCritical == [status |-> "suspicious", threat_level |-> "critical"]
\* flag_suspicious_behavior writing the status of a stop
SuspiciousRecordStopped == [status |-> "stopped", threat_level |-> "critical"]
SuspiciousRecord == [status |-> "suspicious", threat_level |-> "high"]
\* emergency_stop_agent writing the threat level of a flag
StoppedRecordHigh == [status |-> "stopped", threat_level |-> "high"]
StoppedRecord == [status |-> "stopped", threat_level |-> "critical"]

\* what gseen keeps of a response a pass has consumed: the agent, the outcome of
\* its liveness probe and, once fetched, the outcome of its metrics fetch
NoMetrics == Metrics(FALSE, <<>>, -1, -1)
Seen(p, a, h, m) == [pass |-> p, agent |-> a, health |-> h, metrics |-> m]
NothingSeen == Seen("", "", "", NoMetrics)

PassIdle == [agent |-> 0, step |-> "idle"]
PassAt(i, step) == [agent |-> i, step |-> step]

AgentOf(p) == AGENTS[gpc[p].agent]

\* for agent in AGENTS: check_agent_behavior of the current agent has returned;
\* the next one runs up to its await client.get(.../health), or the loop is
\* over and the pass awaits the close of its client
NextAgent(p) ==
    IF gpc[p].agent < Len(AGENTS)
    THEN PassAt(gpc[p].agent + 1, "health")
    ELSE PassAt(gpc[p].agent, "closing")

\* perform_agent_monitoring: the loop over AGENTS starts; the first
\* check_agent_behavior runs up to its await client.get(.../health)
perform_agent_monitoring(p) ==
    /\ gpc[p].step = "idle"
    /\ npasses < MaxPasses
    /\ npasses' = npasses + 1
    /\ gpc' = [gpc EXCEPT ![p] = PassAt(1, "health")]
    /\ loop' = LoopAt("guardian", p, "cycle")
    /\ waiting' = IF p = "manual" THEN waiting \cup {"guardian"} ELSE waiting
    /\ UNCHANGED <<EMERGENCY_STOP_ENABLED, gseen, glog, gstore, gviolations, gstop, gresp, galerts, nstops, now, wvars,
                   delivered, vresp, qresp>>

\* perform_agent_monitoring raises as it leaves its async with;
\* background_supervision catches it at except Exception and sleeps 30 s
\* (/monitor/all answers with the error)
perform_agent_monitoring_raises(p) ==
    /\ gpc[p].step = "closing"
    /\ gpc' = [gpc EXCEPT ![p] = PassIdle]
    /\ loop' = LoopAt("guardian", p, "backoff")
    /\ waiting' = IF p = "manual" THEN waiting \ {"guardian"} ELSE waiting
    /\ UNCHANGED <<EMERGENCY_STOP_ENABLED, gseen, glog, gstore, gviolations, gstop, gresp, galerts, npasses, nstops, now, wvars,
                   delivered, vresp, qresp>>

\* perform_agent_monitoring returns: background_supervision goes to
\* asyncio.sleep(60), /monitor/all returns its response
perform_agent_monitoring_returns(p) ==
    /\ gpc[p].step = "closing"
    /\ gpc' = [gpc EXCEPT ![p] = PassIdle]
    /\ loop' = LoopAt("guardian", p, "idle")
    /\ waiting' = IF p = "manual" THEN waiting \ {"guardian"} ELSE waiting
    /\ UNCHANGED <<EMERGENCY_STOP_ENABLED, gseen, glog, gstore, gviolations, gstop, gresp, galerts, npasses, nstops, now, wvars,
                   delivered, vresp, qresp>>

\* a failed liveness probe after which the policy check still runs
health_check_fails_runs_policy(p, h) ==
    /\ gpc[p].step = "health"
    /\ h # "200"
    /\ gstore' = Put(gstore, AgentOf(p).name, SuspiciousRecord)
    /\ galerts' = [galerts EXCEPT ![AgentOf(p).name] = @ + 1]
    /\ gseen' = Seen(p, AgentOf(p).name, h, NoMetrics)
    /\ gpc' = [gpc EXCEPT ![p].step = "metrics"]
    /\ UNCHANGED <<EMERGENCY_STOP_ENABLED, glog, gviolations, gstop, gresp, npasses, nstops, now, wvars, svars>>

\* check_agent_behavior: the liveness probe raised or returned a status other
\* than 200; flag_suspicious_behavior runs up to its await send_alert
health_check_fails(p, h) ==
    /\ gpc[p].step = "health"
    /\ h # "200"
    /\ gstore' = Put(gstore, AgentOf(p).name, SuspiciousRecord)
    /\ galerts' = [galerts EXCEPT ![AgentOf(p).name] = @ + 1]
    /\ gseen' = Seen(p, AgentOf(p).name, h, NoMetrics)
    /\ gpc' = [gpc EXCEPT ![p].step = "flag_alert"]
    /\ UNCHANGED <<EMERGENCY_STOP_ENABLED, glog, gviolations, gstop, gresp, npasses, nstops, now, wvars, svars>>

\* check_agent_behavior: the liveness probe returned 200; the policy check of
\* the agent's type runs up to its await client.get of the metrics
health_check_passes(p, h) ==
    /\ gpc[p].step = "health"
    /\ h = "200"
    /\ gseen' = Seen(p, AgentOf(p).name, h, NoMetrics)
    /\ gpc' = [gpc EXCEPT ![p].step = "metrics"]
    /\ UNCHANGED <<EMERGENCY_STOP_ENABLED, glog, gstore, gviolations, gstop, gresp, galerts, npasses, nstops, now, wvars, svars>>

\* a policy check whose failed fetch is not caught and ends the pass
check_deployment_policies_raises(p, m) ==
    /\ gpc[p].step = "metrics"
    /\ AgentOf(p).type = "orchestration"
    /\ IF DeploymentViolated(m)
       THEN /\ gviolations' = [gviolations EXCEPT ![AgentOf(p).name] =
                                  log_violation(@, "max_deployments_per_hour", "critical", now + 1)]
            /\ glog' = [glog EXCEPT ![AgentOf(p).name] =
                          Append(@, PolicyViolation("max_deployments_per_hour", "critical", now + 1))]
            /\ now' = now + 1
            /\ gstore' = Put(gstore, AgentOf(p).name, SuspiciousRecord)
            /\ galerts' = [galerts EXCEPT ![AgentOf(p).name] = @ + 1]
            /\ gpc' = [gpc EXCEPT ![p].step = "policy_alert"]
       ELSE /\ gstore' = IF m.ok THEN Put(gstore, AgentOf(p).name, HealthyRecord) ELSE gstore
            /\ gpc' = [gpc EXCEPT ![p] = IF m.ok THEN NextAgent(p) ELSE PassIdle]
            /\ UNCHANGED <<gviolations, glog, galerts, now>>
    /\ gseen' = Seen(p, AgentOf(p).name, "200", m)
    /\ UNCHANGED <<EMERGENCY_STOP_ENABLED, gstop, gresp, npasses, nstops, wvars, svars>>

\* check_deployment_policies after its fetch, then the rest of
\* check_agent_behavior
check_deployment_policies(p, m) ==
    /\ gpc[p].step = "metrics"
    /\ AgentOf(p).type = "orchestration"
    /\ IF DeploymentViolated(m)
       THEN \* log_violation, then flag_suspicious_behavior up to its await send_alert
            /\ gviolations' = [gviolations EXCEPT ![AgentOf(p).name] =
                                  log_violation(@, "max_deployments_per_hour", "critical", now + 1)]
            /\ glog' = [glog EXCEPT ![AgentOf(p).name] =
                          Append(@, PolicyViolation("max_deployments_per_hour", "critical", now + 1))]
            /\ now' = now + 1
            /\ gstore' = Put(gstore, AgentOf(p).name, SuspiciousRecord)
            /\ galerts' = [galerts EXCEPT ![AgentOf(p).name] = @ + 1]
            /\ gpc' = [gpc EXCEPT ![p].step = "policy_alert"]
       ELSE \* nothing logged: "Mark as healthy if no violations"
            /\ gstore' = Put(gstore, AgentOf(p).name, HealthyRecord)
            /\ gpc' = [gpc EXCEPT ![p] = NextAgent(p)]
            /\ UNCHANGED <<gviolations, glog, galerts, now>>
    /\ gseen' = Seen(p, AgentOf(p).name, "200", m)
    /\ UNCHANGED <<EMERGENCY_STOP_ENABLED, gstop, gresp, npasses, nstops, wvars, svars>>

\* a cost check that logs its violation once as a warning and once as critical
check_cost_policies_logs_twice(p, m) ==
    /\ gpc[p].step = "metrics"
    /\ AgentOf(p).type = "analytics"
    /\ IF CostViolated(m)
       THEN /\ gviolations' = [gviolations EXCEPT ![AgentOf(p).name] =
                                  log_violation(
                                      log_violation(@, "max_cost_per_day", "warning", now + 1),
                                      "max_cost_per_day", "critical", now + 2)]
            /\ glog' = [glog EXCEPT ![AgentOf(p).name] =
                          @ \o <<PolicyViolation("max_cost_per_day", "warning", now + 1),
                                 PolicyViolation("max_cost_per_day", "critical", now + 2)>>]
            /\ now' = now + 2
       ELSE UNCHANGED <<gviolations, glog, now>>
    /\ gstore' = Put(gstore, AgentOf(p).name, HealthyRecord)
    /\ gpc' = [gpc EXCEPT ![p] = NextAgent(p)]
    /\ gseen' = Seen(p, AgentOf(p).name, "200", m)
    /\ UNCHANGED <<EMERGENCY_STOP_ENABLED, gstop, gresp, galerts, npasses, nstops, wvars, svars>>

\* check_cost_policies after its fetch, then the rest of check_agent_behavior
check_cost_policies(p, m) ==
    /\ gpc[p].step = "metrics"
    /\ AgentOf(p).type = "analytics"
    /\ IF CostViolated(m)
       THEN /\ gviolations' = [gviolations EXCEPT ![AgentOf(p).name] =
                                  log_violation(@, "max_cost_per_day", "warning", now + 1)]
            /\ glog' = [glog EXCEPT ![AgentOf(p).name] =
                          Append(@, PolicyViolation("max_cost_per_day", "warning", now + 1))]
            /\ now' = now + 1
       ELSE UNCHANGED <<gviolations, glog, now>>
    /\ gstore' = Put(gstore, AgentOf(p).name, HealthyRecord)
    /\ gpc' = [gpc EXCEPT ![p] = NextAgent(p)]
    /\ gseen' = Seen(p, AgentOf(p).name, "200", m)
    /\ UNCHANGED <<EMERGENCY_STOP_ENABLED, gstop, gresp, galerts, npasses, nstops, wvars, svars>>

\* check_monitoring_policies after its fetch, then the rest of
\* check_agent_behavior
check_monitoring_policies(p, m) ==
    /\ gpc[p].step = "metrics"
    /\ AgentOf(p).type = "monitoring"
    /\ IF MonitoringViolated(m)
       THEN /\ gviolations' = [gviolations EXCEPT ![AgentOf(p).name] =
                                  log_violation(@, "max_failed_health_checks", "critical", now + 1)]
            /\ glog' = [glog EXCEPT ![AgentOf(p).name] =
                          Append(@, PolicyViolation("max_failed_health_checks", "critical", now + 1))]
            /\ now' = now + 1
       ELSE UNCHANGED <<gviolations, glog, now>>
    /\ gstore' = Put(gstore, AgentOf(p).name, HealthyRecord)
    /\ gpc' = [gpc EXCEPT ![p] = NextAgent(p)]
    /\ gseen' = Seen(p, AgentOf(p).name, "200", m)
    /\ UNCHANGED <<EMERGENCY_STOP_ENABLED, gstop, gresp, galerts, npasses, nstops, wvars, svars>>

\* the send_alert of the failed liveness probe returns; check_agent_behavior
\* returns
flag_alert_returns(p, d) ==
    /\ gpc[p].step = "flag_alert"
    /\ delivered' = [by |-> "pass", outcome |-> d]
    /\ gpc' = [gpc EXCEPT ![p] = NextAgent(p)]
    /\ UNCHANGED <<EMERGENCY_STOP_ENABLED, gseen, glog, gstore, gviolations, gstop, gresp, galerts, npasses, nstops, now, wvars,
                   loop, waiting, vresp, qresp>>

\* the send_alert of flag_suspicious_behavior in check_deployment_policies
\* returns; check_agent_behavior goes on to its hset of healthy
policy_alert_returns(p, d) ==
    /\ gpc[p].step = "policy_alert"
    /\ delivered' = [by |-> "pass", outcome |-> d]
    /\ gstore' = Put(gstore, AgentOf(p).name, HealthyRecord)
    /\ gpc' = [gpc EXCEPT ![p] = NextAgent(p)]
    /\ UNCHANGED <<EMERGENCY_STOP_ENABLED, gseen, glog, gviolations, gstop, gresp, galerts, npasses, nstops, now, wvars,
                   loop, waiting, vresp, qresp>>

\* no /violations request has been answered
NoListing == [hours |-> -1, body |-> <<>>]

\* no response of a read endpoint is being sent
NoQuery == [endpoint |-> "", arg |-> "", code |-> 0, body |-> [detail |-> ""]]

StopIdle == [agent |-> "", step |-> "idle"]
NoResponse == [agent |-> "", code |-> 0]

\* a rejection that has already marked the named agent as stopped
emergency_stop_rejected_after_write(name) ==
    /\ gstop.step = "idle"
    /\ nstops < MaxStops
    /\ \/ ~EMERGENCY_STOP_ENABLED
       \/ name \notin AgentNames
    /\ gstore' = Put(gstore, name, StoppedRecord)
    /\ gresp' = [agent |-> name, code |-> IF ~EMERGENCY_STOP_ENABLED THEN 403 ELSE 404]
    /\ nstops' = nstops + 1
    /\ UNCHANGED <<EMERGENCY_STOP_ENABLED, gseen, glog, gviolations, gpc, gstop, galerts, npasses, now, wvars, svars>>

\* a rejection that looks the name up before it reads the flag
emergency_stop_rejected_lookup_first(name) ==
    /\ gstop.step = "idle"
    /\ nstops < MaxStops
    /\ \/ ~EMERGENCY_STOP_ENABLED
       \/ name \notin AgentNames
    /\ gresp' = [agent |-> name, code |-> IF name \notin AgentNames THEN 404 ELSE 403]
    /\ nstops' = nstops + 1
    /\ UNCHANGED <<EMERGENCY_STOP_ENABLED, gseen, glog, gstore, gviolations, gpc, gstop, galerts, npasses, now, wvars, svars>>

\* emergency_stop_agent: the two guards that reject a request
emergency_stop_rejected(name) ==
    /\ gstop.step = "idle"
    /\ nstops < MaxStops
    /\ \/ ~EMERGENCY_STOP_ENABLED
       \/ name \notin AgentNames
    /\ gresp' = [agent |-> name, code |-> IF ~EMERGENCY_STOP_ENABLED THEN 403 ELSE 404]
    /\ nstops' = nstops + 1
    /\ UNCHANGED <<EMERGENCY_STOP_ENABLED, gseen, glog, gstore, gviolations, gpc, gstop, galerts, npasses, now, wvars, svars>>

\* a handler that marks the agent stopped and logs the violation only after
\* its alert was sent
emergency_stop_agent_logs_later(name) ==
    /\ gstop.step = "idle"
    /\ nstops < MaxStops
    /\ EMERGENCY_STOP_ENABLED
    /\ name \in AgentNames
    /\ gstore' = Put(gstore, name, StoppedRecord)
    /\ now' = now + 1
    /\ galerts' = [galerts EXCEPT ![name] = @ + 1]
    /\ gstop' = [agent |-> name, step |-> "alert"]
    /\ nstops' = nstops + 1
    /\ UNCHANGED <<EMERGENCY_STOP_ENABLED, gviolations, glog, gseen, gpc, gresp, npasses, wvars, svars>>

\* emergency_stop_agent: hset of stopped, log_violation, up to await send_alert
emergency_stop_agent(name) ==
    /\ gstop.step = "idle"
    /\ nstops < MaxStops
    /\ EMERGENCY_STOP_ENABLED
    /\ name \in AgentNames
    /\ gstore' = Put(gstore, name, StoppedRecord)
    /\ gviolations' = [gviolations EXCEPT ![name] =
                          log_violation(@, "emergency_stop", "critical", now + 1)]
    /\ glog' = [glog EXCEPT ![name] = Append(@, PolicyViolation("emergency_stop", "critical", now + 1))]
    /\ now' = now + 1
    /\ galerts' = [galerts EXCEPT ![name] = @ + 1]
    /\ gstop' = [agent |-> name, step |-> "alert"]
    /\ nstops' = nstops + 1
    /\ UNCHANGED <<EMERGENCY_STOP_ENABLED, gseen, gpc, gresp, npasses, wvars, svars>>

\* a handler that answers 500 when its alert could not be delivered
emergency_stop_returns_raises(d) ==
    /\ gstop.step = "alert"
    /\ delivered' = [by |-> "stop", outcome |-> d]
    /\ gresp' = [agent |-> gstop.agent, code |-> IF d = "failed" THEN 500 ELSE 200]
    /\ gstop' = StopIdle
    /\ UNCHANGED <<EMERGENCY_STOP_ENABLED, gseen, glog, gstore, gviolations, gpc, galerts, npasses, nstops, now, wvars,
                   loop, waiting, vresp, qresp>>

\* emergency_stop_agent: send_alert returns, the handler answers
emergency_stop_returns(d) ==
    /\ gstop.step = "alert"
    /\ delivered' = [by |-> "stop", outcome |-> d]
    /\ gresp' = [agent |-> gstop.agent, code |-> 200]
    /\ gstop' = StopIdle
    /\ UNCHANGED <<EMERGENCY_STOP_ENABLED, gseen, glog, gstore, gviolations, gpc, galerts, npasses, nstops, now, wvars,
                   loop, waiting, vresp, qresp>>

(***************************************************************************)
(* Initial states                                                          *)
(***************************************************************************)
\* a history a target has after k healthy 250 ms probes, newest first
HealthyEntry(ts) == HistoryEntry(ts, "healthy", Response(200, 250))
HealthyLog(k) == [i \in 1..k |-> HealthyEntry(i)]

\* the guardian service before its first pass, with the flag as configured
\* both loops are created at startup and no request has been received
InitServices ==
    /\ loop = [s \in Services |-> "idle"]
    /\ waiting = {}
    /\ delivered = NotDelivered
    /\ vresp = NoListing
    /\ qresp = NoQuery

InitGuardian(enabled) ==
    /\ EMERGENCY_STOP_ENABLED = enabled
    /\ gstore = <<>>
    /\ gviolations = [a \in AgentNames |-> <<>>]
    /\ gpc = [p \in Passes |-> PassIdle]
    /\ gstop = StopIdle
    /\ gresp = NoResponse
    /\ galerts = [a \in AgentNames |-> 0]
    /\ gseen = NothingSeen
    /\ glog = [a \in AgentNames |-> <<>>]
    /\ npasses = 0
    /\ nstops = 0
    /\ InitServices

InitWorkerCommon ==
    /\ InitGuardian(TRUE)
    /\ wpc = [c \in Cycles |-> [t \in WorkerNames |-> "idle"]]
    /\ walerts = [t \in WorkerNames |-> 0]
    /\ wrestarts = [t \in WorkerNames |-> 0]
    /\ wtrace = [t \in WorkerNames |-> <<>>]
    /\ nprobes = 0

\* process start with an empty store
InitFresh(W) ==
    /\ WORKERS = W
    /\ wstore = <<>>
    /\ whistory = [t \in WorkerNames |-> <<>>]
    /\ wlog = [t \in WorkerNames |-> <<>>]
    /\ now = 0
    /\ InitWorkerCommon

\* the store after Prefill healthy 250 ms probes of every registered target
InitPrefilled(W) ==
    /\ WORKERS = W
    /\ wstore = [t \in W |-> ResponseRecord("healthy", Response(200, 250), SeedUptime)]
    /\ whistory = [t \in WorkerNames |-> IF t \in W THEN Reverse(HealthyLog(Prefill)) ELSE <<>>]
    /\ wlog = [t \in WorkerNames |-> IF t \in W THEN HealthyLog(Prefill) ELSE <<>>]
    /\ now = Prefill
    /\ InitWorkerCommon

(***************************************************************************)
(* SpecProbe: one target, the periodic loop, every probe outcome           *)
(***************************************************************************)
InitProbe == InitFresh({"hub"}) \/ InitPrefilled({"hub"})

NextProbe ==
    \/ perform_health_checks("periodic", MaxProbes)
    \/ \E t \in WORKERS, o \in Outcomes : check_worker_health_response("periodic", t, o)
    \/ \E t \in WORKERS, o \in Outcomes : check_worker_health_exception("periodic", t, o)
    \/ \E t \in WORKERS : send_alert_returns("periodic", t, "delivered")
    \/ \E t \in WORKERS : restart_worker_returns("periodic", t)
    \/ gather_returns("periodic")

SpecProbe == InitProbe /\ [][NextProbe]_vars

(***************************************************************************)
(* SpecUptime: one target, the periodic loop, a run of probes that raise   *)
(* followed by one probe with any outcome                                  *)
(***************************************************************************)
\* every probe completed so far raised
OnlyExceptions == \A t \in WORKERS : \A i \in 1..Len(wtrace[t]) : wtrace[t][i].out = Exception

NextUptime ==
    \/ OnlyExceptions /\ perform_health_checks("periodic", MaxDowns)
    \/ \E t \in WORKERS, o \in Outcomes : check_worker_health_response("periodic", t, o)
    \/ \E t \in WORKERS, o \in Outcomes : check_worker_health_exception("periodic", t, o)
    \/ \E t \in WORKERS : send_alert_returns("periodic", t, "delivered")
    \/ \E t \in WORKERS : restart_worker_returns("periodic", t)
    \/ gather_returns("periodic")

SpecUptime == InitFresh({"hub"}) /\ [][NextUptime]_vars

(***************************************************************************)
(* SpecWorker: two targets, periodic and manual cycles running together    *)
(***************************************************************************)
InitWorker == InitFresh(WorkerNames)

NextWorker ==
    \/ \E c \in Cycles : perform_health_checks(c, MaxCycleProbes)
    \/ \E c \in Cycles, t \in WORKERS, o \in CycleOutcomes : check_worker_health_response(c, t, o)
    \/ \E c \in Cycles, t \in WORKERS, o \in CycleOutcomes : check_worker_health_exception(c, t, o)
    \/ \E c \in Cycles, t \in WORKERS : send_alert_returns(c, t, "delivered")
    \/ \E c \in Cycles, t \in WORKERS : restart_worker_returns(c, t)
    \/ \E c \in Cycles : gather_returns(c)

SpecWorker == InitWorker /\ [][NextWorker]_vars

(***************************************************************************)
(* SpecGuardian: the periodic pass, a /monitor/all pass and /stop requests *)
(***************************************************************************)
InitGuardianSpec ==
    /\ \E enabled \in BOOLEAN : InitGuardian(enabled)
    /\ WORKERS = WorkerNames
    /\ wstore = <<>>
    /\ whistory = [t \in WorkerNames |-> <<>>]
    /\ wlog = [t \in WorkerNames |-> <<>>]
    /\ wpc = [c \in Cycles |-> [t \in WorkerNames |-> "idle"]]
    /\ walerts = [t \in WorkerNames |-> 0]
    /\ wrestarts = [t \in WorkerNames |-> 0]
    /\ wtrace = [t \in WorkerNames |-> <<>>]
    /\ nprobes = 0
    /\ now = 0

NextGuardian ==
    \/ \E p \in Passes : perform_agent_monitoring(p)
    \/ \E p \in Passes, h \in HealthOutcomes : health_check_fails(p, h)
    \/ \E p \in Passes, h \in HealthOutcomes : health_check_passes(p, h)
    \/ \E p \in Passes : \E m \in MetricsOutcomes("orchestration") : check_deployment_policies(p, m)
    \/ \E p \in Passes : \E m \in MetricsOutcomes("analytics") : check_cost_policies(p, m)
    \/ \E p \in Passes : \E m \in MetricsOutcomes("monitoring") : check_monitoring_policies(p, m)
    \/ \E p \in Passes : flag_alert_returns(p, "delivered")
    \/ \E p \in Passes : policy_alert_returns(p, "delivered")
    \/ \E p \in Passes : perform_agent_monitoring_returns(p)
    \/ \E name \in StopNames : emergency_stop_rejected(name)
    \/ \E name \in StopNames : emergency_stop_agent(name)
    \/ emergency_stop_returns("delivered")

SpecGuardian == InitGuardianSpec /\ [][NextGuardian]_vars

(***************************************************************************)
(* SpecSupervise: the background_supervision loop and /stop requests       *)
(***************************************************************************)
NextSupervise ==
    \/ perform_agent_monitoring("periodic")
    \/ \E h \in HealthOutcomes : health_check_fails("periodic", h)
    \/ \E h \in HealthOutcomes : health_check_passes("periodic", h)
    \/ \E m \in MetricsOutcomes("orchestration") : check_deployment_policies("periodic", m)
    \/ \E m \in MetricsOutcomes("analytics") : check_cost_policies("periodic", m)
    \/ \E m \in MetricsOutcomes("monitoring") : check_monitoring_policies("periodic", m)
    \/ flag_alert_returns("periodic", "delivered")
    \/ policy_alert_returns("periodic", "delivered")
    \/ perform_agent_monitoring_returns("periodic")
    \/ \E name \in StopNames : emergency_stop_rejected(name)
    \/ \E name \in StopNames : emergency_stop_agent(name)
    \/ emergency_stop_returns("delivered")

SpecSupervise == InitGuardianSpec /\ [][NextSupervise]_vars

(***************************************************************************)
(* SpecViolations: the same loop and requests, started from the store      *)
(* after VPrefill passes in each of which every policy was violated        *)
(***************************************************************************)
\* pass k logs the violation of agent i as the store event 3 (k - 1) + i
PrefillViolation(i, k) ==
    PolicyViolation(
        IF AGENTS[i].type = "orchestration" THEN "max_deployments_per_hour"
        ELSE IF AGENTS[i].type = "analytics" THEN "max_cost_per_day"
        ELSE "max_failed_health_checks",
        IF AGENTS[i].type = "analytics" THEN "warning" ELSE "critical",
        Len(AGENTS) * (k - 1) + i)

PrefillLog(i) == [k \in 1..VPrefill |-> PrefillViolation(i, k)]

InitViolations ==
    /\ EMERGENCY_STOP_ENABLED = TRUE
    /\ gstore = [a \in AgentNames |-> HealthyRecord]
    /\ gviolations = [a \in AgentNames |->
                         LET i == CHOOSE j \in DOMAIN AGENTS : AGENTS[j].name = a
                         IN LTrim(Reverse(PrefillLog(i)), ViolationsMax)]
    /\ glog = [a \in AgentNames |->
                  LET i == CHOOSE j \in DOMAIN AGENTS : AGENTS[j].name = a
                  IN PrefillLog(i)]
    /\ gpc = [p \in Passes |-> PassIdle]
    /\ gstop = StopIdle
    /\ gresp = NoResponse
    /\ galerts = [a \in AgentNames |->
                     IF a = AGENTS[1].name THEN VPrefill ELSE 0]
    /\ gseen = Seen("periodic", AGENTS[Len(AGENTS)].name, "200", Metrics(TRUE, <<>>, 0, 6))
    /\ npasses = 0
    /\ nstops = 0
    /\ loop = [s \in Services |-> "idle"]
    /\ waiting = {}
    /\ delivered = [by |-> "pass", outcome |-> "delivered"]
    /\ vresp = NoListing
    /\ qresp = NoQuery
    /\ now = Len(AGENTS) * VPrefill
    /\ WORKERS = WorkerNames
    /\ wstore = <<>>
    /\ whistory = [t \in WorkerNames |-> <<>>]
    /\ wlog = [t \in WorkerNames |-> <<>>]
    /\ wpc = [c \in Cycles |-> [t \in WorkerNames |-> "idle"]]
    /\ walerts = [t \in WorkerNames |-> 0]
    /\ wrestarts = [t \in WorkerNames |-> 0]
    /\ wtrace = [t \in WorkerNames |-> <<>>]
    /\ nprobes = 0

\* the loop over agents that answer their liveness probe, and the stop requests
\* that are accepted
NextViolations ==
    \/ perform_agent_monitoring("periodic")
    \/ health_check_passes("periodic", "200")
    \/ \E m \in MetricsOutcomes("orchestration") : check_deployment_policies("periodic", m)
    \/ \E m \in MetricsOutcomes("analytics") : check_cost_policies("periodic", m)
    \/ \E m \in MetricsOutcomes("monitoring") : check_monitoring_policies("periodic", m)
    \/ policy_alert_returns("periodic", "delivered")
    \/ perform_agent_monitoring_returns("periodic")
    \/ \E name \in AgentNames : emergency_stop_agent(name)
    \/ emergency_stop_returns("delivered")

SpecViolations == InitViolations /\ [][NextViolations]_vars

(***************************************************************************)
(* SpecLoop: background_monitoring and background_supervision, whose       *)
(* cycles return or raise.  Every await of a loop ends: the HTTP clients   *)
(* have timeouts and the sleeps are finite.                                *)
(***************************************************************************)
\* a fetched body that violates no policy
QuietMetrics(type) ==
    {m \in MetricsOutcomes(type) :
        m.ok /\ ~DeploymentViolated(m) /\ ~CostViolated(m) /\ ~MonitoringViolated(m)}

NextWorkerLoop ==
    \/ perform_health_checks("periodic", MaxLoopProbes)
    \/ \E t \in WORKERS : check_worker_health_response("periodic", t, Response(200, 250))
    \/ \E t \in WORKERS : check_worker_health_exception("periodic", t, Exception)
    \/ \E t \in WORKERS : send_alert_returns("periodic", t, "delivered")
    \/ \E t \in WORKERS : restart_worker_returns("periodic", t)
    \/ gather_returns("periodic")
    \/ perform_health_checks_raises("periodic")

NextGuardianLoop ==
    \/ perform_agent_monitoring("periodic")
    \/ health_check_passes("periodic", "200")
    \/ \E m \in QuietMetrics("orchestration") : check_deployment_policies("periodic", m)
    \/ \E m \in QuietMetrics("analytics") : check_cost_policies("periodic", m)
    \/ \E m \in QuietMetrics("monitoring") : check_monitoring_policies("periodic", m)
    \/ perform_agent_monitoring_returns("periodic")
    \/ perform_agent_monitoring_raises("periodic")

NextLoop == NextWorkerLoop \/ NextGuardianLoop

SpecLoop ==
    /\ InitFresh({"hub"})
    /\ [][NextLoop]_vars
    /\ WF_vars(NextWorkerLoop)
    /\ WF_vars(NextGuardianLoop)

(***************************************************************************)
(* SpecDelivery: the alerts of both services with every delivery outcome:  *)
(* one target that is down, a pass over agents that fail their probe or    *)
(* break their policy, and accepted stop requests for one agent            *)
(***************************************************************************)
\* the metrics that break the policy of an agent of this type
LoudMetrics(type) == MetricsOutcomes(type) \ (QuietMetrics(type) \cup {FetchFailed})

\* the send_alert calls of both services so far
RECURSIVE Total(_, _)
Total(f, S) ==
    IF S = {} THEN 0
    ELSE LET x == CHOOSE y \in S : TRUE IN f[x] + Total(f, S \ {x})

AlertsSent == Total(walerts, WorkerNames) + Total(galerts, AgentNames)

\* a step that sends an alert is taken while fewer than MaxAlerts were sent
NextDelivery ==
    \/ perform_health_checks("periodic", MaxLoopProbes)
    \/ /\ AlertsSent < MaxAlerts
       /\ \E t \in WORKERS : check_worker_health_response("periodic", t, Response(503, 250))
    \/ /\ AlertsSent < MaxAlerts
       /\ \E t \in WORKERS : check_worker_health_exception("periodic", t, Exception)
    \/ \E t \in WORKERS, d \in DeliveryOutcomes : send_alert_returns("periodic", t, d)
    \/ \E t \in WORKERS : restart_worker_returns("periodic", t)
    \/ gather_returns("periodic")
    \/ perform_agent_monitoring("periodic")
    \/ AlertsSent < MaxAlerts /\ health_check_fails("periodic", "503")
    \/ health_check_passes("periodic", "200")
    \/ /\ AlertsSent < MaxAlerts
       /\ \E m \in LoudMetrics("orchestration") : check_deployment_policies("periodic", m)
    \/ /\ AlertsSent < MaxAlerts
       /\ \E m \in LoudMetrics("analytics") : check_cost_policies("periodic", m)
    \/ /\ AlertsSent < MaxAlerts
       /\ \E m \in LoudMetrics("monitoring") : check_monitoring_policies("periodic", m)
    \/ \E d \in DeliveryOutcomes : flag_alert_returns("periodic", d)
    \/ \E d \in DeliveryOutcomes : policy_alert_returns("periodic", d)
    \/ perform_agent_monitoring_returns("periodic")
    \/ AlertsSent < MaxAlerts /\ emergency_stop_agent(AGENTS[1].name)
    \/ \E d \in DeliveryOutcomes : emergency_stop_returns(d)

SpecDelivery == InitFresh({"hub"}) /\ [][NextDelivery]_vars

(***************************************************************************)
(* SpecListing: GET /violations?hours=N between the steps of the loop and  *)
(* of accepted stops of one agent; every agent breaks its policy.  One     *)
(* store event is one hour of the clock.                                   *)
(***************************************************************************)
\* PolicyViolation(**violation_data) read from the list of this agent
Listed(agent, v) ==
    [agent |-> agent, policy |-> v.policy, severity |-> v.severity, timestamp |-> v.timestamp]

\* a window test that drops the violation logged exactly at the cutoff
WithinWindowExclusive(violation_time, cutoff) == violation_time > cutoff
\* if violation_time >= cutoff
WithinWindow(violation_time, cutoff) == violation_time >= cutoff

\* for agent in AGENTS[i..]: lrange(key, 0, -1), append those within the window
RECURSIVE Collect(_, _)
Collect(i, cutoff) ==
    IF i > Len(AGENTS) THEN <<>>
    ELSE LET name == AGENTS[i].name
             all_violations == gviolations[name]
             kept == SelectSeq(all_violations, LAMBDA v : WithinWindow(v.timestamp, cutoff))
         IN [k \in 1..Len(kept) |-> Listed(name, kept[k])] \o Collect(i + 1, cutoff)

\* sorted(..., key=timestamp, reverse=True): stable, equal keys keep their order
InsertDesc(s, v) ==
    LET before == {k \in 1..Len(s) : s[k].timestamp >= v.timestamp}
        n == Cardinality(before)
    IN SubSeq(s, 1, n) \o <<v>> \o SubSeq(s, n + 1, Len(s))

RECURSIVE SortedDesc(_)
SortedDesc(s) ==
    IF s = <<>> THEN <<>>
    ELSE InsertDesc(SortedDesc(SubSeq(s, 1, Len(s) - 1)), s[Len(s)])

\* list_violations: cutoff = datetime.now() - timedelta(hours=hours)
list_violations(hours) ==
    /\ vresp' = [hours |-> hours, body |-> SortedDesc(Collect(1, now - hours))]
    /\ UNCHANGED <<gvars, wvars, loop, waiting, delivered, qresp, now>>

NextListing ==
    \/ perform_agent_monitoring("periodic")
    \/ health_check_passes("periodic", "200")
    \/ \E m \in LoudMetrics("orchestration") : check_deployment_policies("periodic", m)
    \/ \E m \in LoudMetrics("analytics") : check_cost_policies("periodic", m)
    \/ \E m \in LoudMetrics("monitoring") : check_monitoring_policies("periodic", m)
    \/ policy_alert_returns("periodic", "delivered")
    \/ perform_agent_monitoring_returns("periodic")
    \/ emergency_stop_agent(AGENTS[1].name)
    \/ emergency_stop_returns("delivered")
    \/ \E hours \in 0..MaxHours : list_violations(hours)

SpecListing == InitFresh({"hub"}) /\ [][NextListing]_vars

(***************************************************************************)
(* SpecQuery: the read endpoints of both services.  A handler of a read    *)
(* endpoint has no suspension point: it computes its response from the     *)
(* store and sends it.  The two services are separate processes with       *)
(* disjoint keys; one run follows the cycles of one of them.  One store    *)
(* event is one hour of the clock.                                         *)
(***************************************************************************)
\* redis_client.lrange(key, start, stop)
LRange(list, start, stop) == SubSeq(list, start + 1, Min(Len(list), stop + 1))

\* WORKERS in the order of registration
WorkerList == <<"hub", "pumo-api">>
Registered == SelectSeq(WorkerList, LAMBDA t : t \in WORKERS)

\* a quotient a / b of two floats, kept as the pair
Ratio(a, b) == [num |-> a, den |-> b]

\* list_workers: the WorkerStatus of a target, with the defaults of one
\* that has no record
WorkerView(t) ==
    IF t \in DOMAIN wstore
    THEN [name |-> t, status |-> wstore[t].status,
          response_time_ms |-> wstore[t].response_time_ms,
          error |-> wstore[t].error, uptime_percent |-> wstore[t].uptime_percent]
    ELSE [name |-> t, status |-> "unknown", response_time_ms |-> 0,
          error |-> "", uptime_percent |-> SeedUptime]

\* GET /workers
list_workers ==
    /\ qresp' = [endpoint |-> "/workers", arg |-> "", code |-> 200,
                 body |-> [workers |-> [i \in 1..Len(Registered) |-> WorkerView(Registered[i])]]]
    /\ UNCHANGED <<wvars, gvars, loop, waiting, delivered, vresp, now>>

\* history = lrange(history_key, 0, 20)
RecentHistoryOneMore(list) == LRange(list, 0, 20)
\* history = redis_client.lrange(history_key, 0, 19)
RecentHistory(list) == LRange(list, 0, 19)

\* names a client may ask for
QueryNames == WorkerNames \cup {"ghost"}

\* GET /workers/{worker_name}
get_worker_status(worker_name) ==
    /\ qresp' = IF worker_name \notin DOMAIN wstore
                THEN [endpoint |-> "/workers/{worker_name}", arg |-> worker_name,
                      code |-> 404, body |-> [detail |-> "Worker not found or not yet monitored"]]
                ELSE [endpoint |-> "/workers/{worker_name}", arg |-> worker_name, code |-> 200,
                      body |-> [status |-> wstore[worker_name],
                                history |-> RecentHistory(whistory[worker_name])]]
    /\ UNCHANGED <<wvars, gvars, loop, waiting, delivered, vresp, now>>

\* worker get_metrics: the loop over WORKERS[i..] with its accumulators
RECURSIVE WorkerTally(_, _)
WorkerTally(i, acc) ==
    IF i > Len(Registered) THEN acc
    ELSE LET t == Registered[i]
         IN IF t \notin DOMAIN wstore THEN WorkerTally(i + 1, acc)
            ELSE LET status == wstore[t].status
                     rt == wstore[t].response_time_ms
                     counted == IF status \in {"healthy", "degraded", "down"}
                                THEN [acc EXCEPT ![status] = @ + 1] ELSE acc
                     timed == IF rt > 0
                              THEN [counted EXCEPT !.total_response_time = @ + rt,
                                                   !.response_count = @ + 1]
                              ELSE counted
                 IN WorkerTally(i + 1,
                        [timed EXCEPT !.total_uptime = @ + wstore[t].uptime_percent])

\* GET /metrics of the worker monitor
worker_get_metrics ==
    LET acc == WorkerTally(1, [healthy |-> 0, degraded |-> 0, down |-> 0,
                               total_response_time |-> 0, response_count |-> 0,
                               total_uptime |-> 0])
    IN /\ qresp' = [endpoint |-> "worker/metrics", arg |-> "", code |-> 200,
                    body |-> [total_workers |-> Len(Registered),
                              healthy |-> acc.healthy, degraded |-> acc.degraded,
                              down |-> acc.down,
                              avg_response_time_ms |->
                                  IF acc.response_count > 0
                                  THEN Ratio(acc.total_response_time, acc.response_count)
                                  ELSE Ratio(0, 1),
                              uptime_percent |->
                                  IF Len(Registered) > 0
                                  THEN Ratio(acc.total_uptime, Len(Registered))
                                  ELSE Ratio(SeedUptime, 1)]]
       /\ UNCHANGED <<wvars, gvars, loop, waiting, delivered, vresp, now>>

\* list_agents: the AgentStatus of an agent with the policies of its last 10
\* violations, and the defaults of one that has no record
AgentView(a) ==
    IF a \in DOMAIN gstore
    THEN [name |-> a, status |-> gstore[a].status, threat_level |-> gstore[a].threat_level,
          violations |-> LET last == LRange(gviolations[a], 0, 9)
                         IN [k \in 1..Len(last) |-> last[k].policy]]
    ELSE [name |-> a, status |-> "unknown", threat_level |-> "low", violations |-> <<>>]

\* GET /agents
list_agents ==
    /\ qresp' = [endpoint |-> "/agents", arg |-> "", code |-> 200,
                 body |-> [agents |-> [i \in 1..Len(AGENTS) |-> AgentView(AGENTS[i].name)]]]
    /\ UNCHANGED <<wvars, gvars, loop, waiting, delivered, vresp, now>>

\* guardian get_metrics: the loop over AGENTS[i..] with its counters
RECURSIVE AgentTally(_, _)
AgentTally(i, acc) ==
    IF i > Len(AGENTS) THEN acc
    ELSE LET a == AGENTS[i].name
             status == IF a \in DOMAIN gstore THEN gstore[a].status ELSE "unknown"
         IN AgentTally(i + 1,
                IF status \in {"healthy", "suspicious", "stopped"}
                THEN [acc EXCEPT ![status] = @ + 1] ELSE acc)

MetricsWindow == 24      \* violations_24h = await list_violations(24)

\* the body of the GuardianMetrics answered now
GuardianMetrics ==
    LET acc == AgentTally(1, [healthy |-> 0, suspicious |-> 0, stopped |-> 0])
        violations_24h == SortedDesc(Collect(1, now - MetricsWindow))
    IN [total_agents |-> Len(AGENTS),
        healthy |-> acc.healthy, suspicious |-> acc.suspicious, stopped |-> acc.stopped,
        total_violations_24h |-> Len(violations_24h),
        critical_alerts_24h |->
            Cardinality({k \in 1..Len(violations_24h) : violations_24h[k].severity = "critical"})]

\* a handler that drops the violations older than its window from the store
guardian_get_metrics_expires ==
    /\ qresp' = [endpoint |-> "guardian/metrics", arg |-> "", code |-> 200,
                 body |-> GuardianMetrics]
    /\ gviolations' = [a \in AgentNames |->
                          SelectSeq(gviolations[a],
                                    LAMBDA v : WithinWindow(v.timestamp, now - MetricsWindow))]
    /\ UNCHANGED <<wvars, EMERGENCY_STOP_ENABLED, gstore, gpc, gstop, gresp, galerts, gseen, glog,
                   npasses, nstops, loop, waiting, delivered, vresp, now>>

\* GET /metrics of the guardian
guardian_get_metrics ==
    /\ qresp' = [endpoint |-> "guardian/metrics", arg |-> "", code |-> 200,
                 body |-> GuardianMetrics]
    /\ UNCHANGED <<wvars, gvars, loop, waiting, delivered, vresp, now>>

\* the response has been sent
query_returns ==
    /\ qresp # NoQuery \/ vresp # NoListing
    /\ qresp' = NoQuery
    /\ vresp' = NoListing
    /\ UNCHANGED <<wvars, gvars, loop, waiting, delivered, now>>

\* no response is being sent
Answered == qresp = NoQuery /\ vresp = NoListing

\* a run that starts with the agent records of earlier passes follows the
\* guardian, a run that starts without them follows the worker monitor
FollowsGuardian == gstore # <<>>

InitQuery == InitFresh(WorkerNames) \/ InitPrefilled({"hub"}) \/ InitViolations

NextQueryWorker ==
    \/ perform_health_checks("periodic", MaxLoopProbes)
    \/ \E t \in WORKERS, o \in CycleOutcomes : check_worker_health_response("periodic", t, o)
    \/ \E t \in WORKERS : check_worker_health_exception("periodic", t, Exception)
    \/ \E t \in WORKERS : send_alert_returns("periodic", t, "delivered")
    \/ \E t \in WORKERS : restart_worker_returns("periodic", t)
    \/ gather_returns("periodic")

NextQueryGuardian ==
    \/ perform_agent_monitoring("periodic")
    \/ health_check_passes("periodic", "200")
    \/ \E m \in MetricsOutcomes("orchestration") \ {FetchFailed} : check_deployment_policies("periodic", m)
    \/ \E m \in LoudMetrics("analytics") : check_cost_policies("periodic", m)
    \/ \E m \in QuietMetrics("monitoring") : check_monitoring_policies("periodic", m)
    \/ policy_alert_returns("periodic", "delivered")
    \/ perform_agent_monitoring_returns("periodic")
    \/ emergency_stop_agent(AGENTS[1].name)
    \/ emergency_stop_returns("delivered")

NextQuery ==
    \/ Answered /\ ~FollowsGuardian /\ NextQueryWorker
    \/ Answered /\ FollowsGuardian /\ NextQueryGuardian
    \/ list_workers
    \/ \E worker_name \in QueryNames : get_worker_status(worker_name)
    \/ worker_get_metrics
    \/ list_agents
    \/ guardian_get_metrics
    \/ \E hours \in {MetricsWindow} : list_violations(hours)
    \/ query_returns

SpecQuery == InitQuery /\ [][NextQuery]_vars

(***************************************************************************)
(* SpecRecords: the StatusRecords of both services from empty stores.  One *)
(* run follows the probes of the worker monitor or the passes and stop     *)
(* requests of the guardian.                                               *)
(***************************************************************************)
\* neither a pass nor a stop request has started
GuardianAtRest == npasses = 0 /\ nstops = 0
\* no probe has started
WorkerAtRest == nprobes = 0 /\ \A c \in Cycles : CycleIdle(c)

NextRecords ==
    \/ GuardianAtRest /\ NextProbe
    \/ WorkerAtRest /\ NextSupervise

SpecRecords == InitFresh({"hub"}) /\ [][NextRecords]_vars

(***************************************************************************)
(* Properties                                                              *)
(***************************************************************************)
LastProbe(t) == wtrace[t][Len(wtrace[t])]
Probed(t) == Len(wtrace[t]) > 0
Outs(t) == [i \in 1..Len(wtrace[t]) |-> wtrace[t][i].out]

\* the previous uptime a probe started from: the stored one, or 100.00
StartedFrom(e) == IF e.had THEN e.stored ELSE 10000

\* the probe that completes for target t in a step
Completes(t) == Len(wtrace'[t]) = Len(wtrace[t]) + 1

(* C1: once an agent's status is stopped, no step of a monitoring pass      *)
(* changes it: a stopped agent is still stopped after every step.          *)
C1_StoppedIsNeverOverwritten ==
    [][\A a \in AgentNames :
          (a \in DOMAIN gstore /\ gstore[a].status = "stopped")
              => gstore'[a].status = "stopped"]_vars

(* C2: the check of an agent in a pass in which a violation was logged for  *)
(* that agent (in the step itself, or before the alert the pass is waiting *)
(* on) does not end with the agent healthy; and an agent is written        *)
(* healthy only by a pass that is past the 200 of its liveness probe.      *)
C2_HealthyOnlyWithoutViolation ==
    [][\A p \in Passes :
          (gpc[p].step # "idle" /\ gpc'[p] # gpc[p]) =>
              LET a == AGENTS[gpc[p].agent].name
                  fired == gpc[p].step = "policy_alert" \/ gviolations'[a] # gviolations[a]
                  ends == gpc'[p].agent # gpc[p].agent
                  wroteHealthy == a \in DOMAIN gstore' /\ gstore'[a].status = "healthy"
                                     /\ (a \notin DOMAIN gstore \/ gstore[a] # gstore'[a])
              IN /\ (ends /\ fired) => ~(a \in DOMAIN gstore' /\ gstore'[a].status = "healthy")
                 /\ wroteHealthy => gpc[p].step \in {"metrics", "policy_alert"}]_vars

(* C3: when a pass has logged max_deployments_per_hour for the              *)
(* orchestration agent (more than 10 actions in the trailing hour), the    *)
(* violation is the head of the agent's sequence with severity critical,   *)
(* and the agent's status when its check ends is suspicious.               *)
C3_RateViolationLeavesSuspicious ==
    [][\A p \in Passes :
          (gpc[p].step \in {"metrics", "policy_alert"} /\ gpc'[p] # gpc[p]
              /\ AGENTS[gpc[p].agent].type = "orchestration") =>
              LET a == AGENTS[gpc[p].agent].name
              IN /\ gpc'[p].step = "policy_alert" =>
                       /\ Len(gviolations'[a]) = Len(gviolations[a]) + 1
                       /\ gviolations'[a][1].policy = "max_deployments_per_hour"
                       /\ gviolations'[a][1].severity = "critical"
                       /\ gstore'[a].status = "suspicious"
                 /\ gpc[p].step = "metrics" /\ gpc'[p].step # "policy_alert" =>
                       gviolations'[a] = gviolations[a]
                 /\ gpc[p].step = "policy_alert" => gstore'[a].status = "suspicious"]_vars

(* C4, as claimed: in every agent record, threat_level is critical if and   *)
(* only if status is suspicious or stopped.                                *)
C4_CriticalIffSuspiciousOrStopped ==
    \A a \in DOMAIN gstore :
        gstore[a].threat_level = "critical" <=> gstore[a].status \in {"suspicious", "stopped"}

(* C4, amended: in every agent record, threat_level is critical if and only *)
(* if status is stopped; a suspicious agent carries threat_level high.     *)
C4_CriticalIffStopped ==
    \A a \in DOMAIN gstore :
        /\ gstore[a].threat_level = "critical" <=> gstore[a].status = "stopped"
        /\ gstore[a].status = "suspicious" => gstore[a].threat_level = "high"

\* C4 witness: one agent stopped while another is suspicious
C4_Witness ==
    \E a, b \in DOMAIN gstore :
        gstore[a].status = "stopped" /\ gstore[b].status = "suspicious"

(* C5: the status written by a probe is a function of that probe's outcome  *)
(* alone: exception -> down; 200 under 1000 ms -> healthy; 200 from 1000   *)
(* up to, not including, 3000 ms -> degraded; anything else -> down.       *)
C5_ClassifierTable ==
    \A t \in WORKERS :
        Probed(t) =>
            LET o == LastProbe(t).out
                verdict == wstore[t].status
            IN /\ o.kind = "exception" => verdict = "down"
               /\ (o.kind = "response" /\ o.status_code = 200 /\ o.response_time_ms < 1000)
                     => verdict = "healthy"
               /\ (o.kind = "response" /\ o.status_code = 200
                     /\ 1000 <= o.response_time_ms /\ o.response_time_ms < 3000)
                     => verdict = "degraded"
               /\ (o.kind = "response" /\ (o.status_code # 200 \/ o.response_time_ms >= 3000))
                     => verdict = "down"

\* C5 witness: after an earlier down probe, a 200 in exactly 1000 ms is degraded
C5_Witness ==
    \E t \in WORKERS :
        /\ Len(wtrace[t]) = 2
        /\ wtrace[t][1].out = Exception
        /\ wtrace[t][2].out = Response(200, 1000)
        /\ wstore[t].status = "degraded"

(* C6: every stored uptime_percent lies in [0, 100], whatever the probe     *)
(* outcomes and however the manual and the periodic cycle interleave.      *)
C6_UptimeInRange ==
    \A t \in DOMAIN wstore :
        0 <= wstore[t].uptime_percent /\ wstore[t].uptime_percent <= 10000

\* C6 witness: a target probed by both cycles while both are still running
C6_Witness ==
    \E t \in WORKERS :
        /\ Len(wtrace[t]) = 2
        /\ \A c \in Cycles : wpc[c][t] \notin {"idle", "probing"}
        /\ wstore[t].uptime_percent < 10000

(* C7: a probe classified down never raises the stored uptime_percent and a *)
(* probe classified healthy or degraded never lowers it, starting from the *)
(* seed 100.00 of a never-checked target.                                  *)
C7_UptimeMonotone ==
    [][\A t \in WORKERS :
          Completes(t) =>
              LET before == IF t \in DOMAIN wstore THEN wstore[t].uptime_percent ELSE 10000
                  after == wstore'[t].uptime_percent
              IN /\ wstore'[t].status = "down" => after <= before
                 /\ wstore'[t].status \in {"healthy", "degraded"} => after >= before]_vars

\* C7 witness: two consecutive down probes, then the uptime is 90.25
C7_Witness ==
    \E t \in WORKERS :
        /\ Len(wtrace[t]) = 2
        /\ wtrace[t][1].out = Exception
        /\ wtrace[t][2].out = Response(503, 250)
        /\ wstore[t].uptime_percent = 9025

(* C8: the uptime a probe writes is uptime_prev * 0.95 + is_up * 5.0 to two *)
(* decimals, uptime_prev being 100.00 without a record and is_up being 1   *)
(* for healthy/degraded and 0 otherwise; and from the same previous value  *)
(* an unreachable target and a response classified down get the same       *)
(* uptime.                                                                 *)
C8_UptimeFormula ==
    /\ \A t \in WORKERS :
          Probed(t) =>
              LET is_up == IF wstore[t].status \in {"healthy", "degraded"} THEN 1 ELSE 0
                  exact == StartedFrom(LastProbe(t)) * 95 + is_up * 50000
                  written == wstore[t].uptime_percent * 100
              IN written - exact <= 50 /\ exact - written <= 50
    /\ \A t, u \in WORKERS :
          (/\ Probed(t) /\ Probed(u)
           /\ StartedFrom(LastProbe(t)) = StartedFrom(LastProbe(u))
           /\ LastProbe(t).out.kind = "exception"
           /\ LastProbe(u).out.kind = "response" /\ wstore[u].status = "down")
              => wstore[t].uptime_percent = wstore[u].uptime_percent

\* C8 witness: from 95.00, one target unreachable and one answering 503
C8_Witness ==
    \E t, u \in WORKERS :
        /\ Len(wtrace[t]) = 2 /\ Len(wtrace[u]) = 2
        /\ LastProbe(t).stored = 9500 /\ LastProbe(u).stored = 9500
        /\ LastProbe(t).out = Exception
        /\ LastProbe(u).out = Response(503, 250)
        /\ wstore[t].uptime_percent = 9025 /\ wstore[u].uptime_percent = 9025

(* C9: on a never-checked target, 200 in 250 ms gives healthy and 100.00;   *)
(* a following timeout gives down and 95.00; a following 200 in 500 ms     *)
(* gives healthy and 95.25.                                                *)
C9_Scenario ==
    \A t \in WORKERS :
        (Probed(t) /\ ~wtrace[t][1].had) =>
            /\ Outs(t) = <<Response(200, 250)>>
                  => wstore[t].status = "healthy" /\ wstore[t].uptime_percent = 10000
            /\ Outs(t) = <<Response(200, 250), Exception>>
                  => wstore[t].status = "down" /\ wstore[t].uptime_percent = 9500
            /\ Outs(t) = <<Response(200, 250), Exception, Response(200, 500)>>
                  => wstore[t].status = "healthy" /\ wstore[t].uptime_percent = 9525

\* C9 witness: the three probes of the scenario have completed
C9_Witness ==
    \E t \in WORKERS :
        /\ Probed(t)
        /\ ~wtrace[t][1].had
        /\ Outs(t) = <<Response(200, 250), Exception, Response(200, 500)>>

(* C10: a target's history holds at most 100 entries, newest first, and is  *)
(* exactly the 100 most recently pushed entries: on overflow the oldest is *)
(* the one dropped.                                                        *)
C10_HistoryBounded ==
    \A t \in WorkerNames :
        /\ Len(whistory[t]) <= 100
        /\ whistory[t] = Reverse(LastK(wlog[t], 100))
        /\ \A i \in 1..(Len(whistory[t]) - 1) :
              whistory[t][i].timestamp > whistory[t][i + 1].timestamp

\* C10 witness: more than 100 entries were pushed and the oldest was dropped
C10_Witness ==
    \E t \in WORKERS :
        /\ Len(wlog[t]) > 100
        /\ Len(whistory[t]) = 100
        /\ whistory[t][100] = wlog[t][Len(wlog[t]) - 99]

(* C11: an agent's violation list holds at most 100 entries, newest first,  *)
(* and is exactly the 100 most recently logged violations of that agent:   *)
(* when a 101st is logged the oldest is the one evicted.                   *)
C11_ViolationsBounded ==
    \A a \in AgentNames :
        /\ Len(gviolations[a]) <= 100
        /\ gviolations[a] = Reverse(LastK(glog[a], 100))
        /\ \A i \in 1..(Len(gviolations[a]) - 1) :
              gviolations[a][i].timestamp > gviolations[a][i + 1].timestamp

\* C11 witness: a 101st violation was logged and the oldest one is gone
C11_Witness ==
    \E a \in AgentNames :
        /\ Len(glog[a]) > 100
        /\ Len(gviolations[a]) = 100
        /\ gviolations[a][1] = glog[a][Len(glog[a])]
        /\ gviolations[a][100] = glog[a][Len(glog[a]) - 99]

\* a step in which emergency_stop_agent receives a request, the name it was
\* called with, and whether it passed both guards
StopReceived == nstops' = nstops + 1
StopName == IF gstop'.step = "alert" THEN gstop'.agent ELSE gresp'.agent
StopAccepted == StopReceived /\ gstop'.step = "alert"

\* what the guardian keeps about the agents: records, violations, alerts sent
Untouched == UNCHANGED <<gstore, gviolations, glog, galerts>>

(* C12, as stated: a stop request naming an agent that is not registered   *)
(* is answered 404 and changes no record, no violation list and sends no   *)
(* alert.                                                                  *)
C12_UnknownAgentIsNotFound ==
    [][StopReceived /\ StopName \notin AgentNames
          => gresp' = [agent |-> StopName, code |-> 404] /\ Untouched]_vars

(* C12, amended: a stop request naming an agent that is not registered is  *)
(* rejected - 404 when emergency stop is enabled, 403 when it is disabled  *)
(* - and creates or changes no record, appends no violation and sends no   *)
(* alert.                                                                  *)
C12_UnknownAgentIsRejected ==
    [][StopReceived /\ StopName \notin AgentNames
          => /\ gresp' = [agent |-> StopName,
                          code |-> IF EMERGENCY_STOP_ENABLED THEN 404 ELSE 403]
             /\ gstop' = StopIdle
             /\ DOMAIN gstore' = DOMAIN gstore
             /\ Untouched]_vars

\* C12 witness: with the flag enabled an unregistered name was answered 404
C12_Witness ==
    /\ EMERGENCY_STOP_ENABLED
    /\ gresp = [agent |-> "ghost-agent", code |-> 404]
    /\ "ghost-agent" \notin DOMAIN gstore

(* C13: with emergency stop disabled every stop request, for a registered  *)
(* or an unregistered name, is answered 403 and leaves every record and    *)
(* violation list as it was.                                               *)
C13_DisabledIsForbidden ==
    [][StopReceived /\ ~EMERGENCY_STOP_ENABLED
          => /\ gresp' = [agent |-> StopName, code |-> 403]
             /\ gstop' = StopIdle
             /\ Untouched]_vars

\* C13 witness: with the flag disabled an unregistered name was answered 403
C13_Witness ==
    /\ ~EMERGENCY_STOP_ENABLED
    /\ gresp = [agent |-> "ghost-agent", code |-> 403]

C15_StoppedOnlyByStop ==
    [][\A a \in AgentNames :
          /\ a \in DOMAIN gstore'
          /\ gstore'[a].status = "stopped"
          /\ ~(a \in DOMAIN gstore /\ gstore[a].status = "stopped")
          => StopAccepted /\ StopName = a]_vars

\* C15 witness: one agent is stopped while a pass has probed and checked others
C15_Witness ==
    /\ \E a \in DOMAIN gstore : gstore[a].status = "stopped"
    /\ \E b \in DOMAIN gstore : gstore[b].status = "suspicious"
    /\ \E c \in DOMAIN gstore : gstore[c].status = "healthy"
    /\ gseen.metrics.ok

\* a step in which pass p consumes the response it was waiting for at step s
PassStep(p, s) == gpc[p].step = s /\ gpc'[p] # gpc[p]

\* the violation a policy check logs in the step being taken
Logged(policy, severity) ==
    [policy |-> policy, severity |-> severity, timestamp |-> now']

(* C16: when the liveness probe of an agent raises or returns a status     *)
(* other than 200, the pass writes suspicious / high for it and sends one  *)
(* alert, appends no violation, and goes from that alert to the next agent *)
(* without running the agent's policy check.                               *)
C16_FailedProbeFlags ==
    [][\A p \in Passes :
          /\ PassStep(p, "health") /\ gseen'.health # "200"
                => /\ gstore'[AgentOf(p).name] = [status |-> "suspicious", threat_level |-> "high"]
                   /\ galerts'[AgentOf(p).name] = galerts[AgentOf(p).name] + 1
                   /\ \A b \in AgentNames \ {AgentOf(p).name} : galerts'[b] = galerts[b]
                   /\ UNCHANGED <<gviolations, glog>>
                   /\ gpc'[p] = PassAt(gpc[p].agent, "flag_alert")
          /\ PassStep(p, "flag_alert")
                => /\ gpc'[p] = NextAgent(p)
                   /\ Untouched]_vars

\* C16 witness: the probe of the second agent raised; the agent is suspicious
\* and the pass waits for the alert to be sent
C16_Witness ==
    /\ gpc["periodic"] = PassAt(2, "flag_alert")
    /\ gseen = Seen("periodic", AGENTS[2].name, "exception", NoMetrics)
    /\ gstore[AGENTS[2].name] = [status |-> "suspicious", threat_level |-> "high"]
    /\ galerts[AGENTS[2].name] = 1
    /\ gviolations[AGENTS[2].name] = <<>>

(* C17: for an analytics agent whose liveness probe returned 200, a        *)
(* reported total above 10.00 appends exactly one max_cost_per_day /       *)
(* warning violation, sends no alert and does not leave the agent          *)
(* suspicious; a total of 10.00 or less appends no violation.              *)
C17_CostPolicy ==
    [][\A p \in Passes :
          PassStep(p, "metrics") /\ AgentOf(p).type = "analytics" /\ gseen'.metrics.ok
             => LET a == AgentOf(p).name
                    v == Logged("max_cost_per_day", "warning")
                IN /\ gseen'.health = "200"
                   /\ gseen'.metrics.total_cost > 1000
                         => /\ gviolations' = [gviolations EXCEPT ![a] = LTrim(<<v>> \o @, ViolationsMax)]
                            /\ glog' = [glog EXCEPT ![a] = Append(@, v)]
                            /\ gstore'[a].status # "suspicious"
                            /\ galerts' = galerts
                   /\ gseen'.metrics.total_cost <= 1000
                         => UNCHANGED <<gviolations, glog>>]_vars

\* C17 witness: a total of 10.01 was reported and one warning was logged
C17_Witness ==
    /\ gseen = Seen("periodic", AGENTS[2].name, "200", Metrics(TRUE, <<>>, 1001, 0))
    /\ Len(gviolations[AGENTS[2].name]) = 1
    /\ gviolations[AGENTS[2].name][1].policy = "max_cost_per_day"
    /\ gviolations[AGENTS[2].name][1].severity = "warning"
    /\ gstore[AGENTS[2].name].status = "healthy"

(* C18: for a monitoring agent whose liveness probe returned 200, a        *)
(* reported down-count above 5 appends exactly one                         *)
(* max_failed_health_checks / critical violation; a down-count of 5 or     *)
(* less appends no violation.                                              *)
C18_MonitoringPolicy ==
    [][\A p \in Passes :
          PassStep(p, "metrics") /\ AgentOf(p).type = "monitoring" /\ gseen'.metrics.ok
             => LET a == AgentOf(p).name
                    v == Logged("max_failed_health_checks", "critical")
                IN /\ gseen'.health = "200"
                   /\ gseen'.metrics.down > 5
                         => /\ gviolations' = [gviolations EXCEPT ![a] = LTrim(<<v>> \o @, ViolationsMax)]
                            /\ glog' = [glog EXCEPT ![a] = Append(@, v)]
                   /\ gseen'.metrics.down <= 5
                         => UNCHANGED <<gviolations, glog>>]_vars

\* C18 witness: a down-count of 6 was reported and one critical violation logged
C18_Witness ==
    /\ gseen = Seen("periodic", AGENTS[3].name, "200", Metrics(TRUE, <<>>, 0, 6))
    /\ Len(gviolations[AGENTS[3].name]) = 1
    /\ gviolations[AGENTS[3].name][1].policy = "max_failed_health_checks"
    /\ gviolations[AGENTS[3].name][1].severity = "critical"

(* C19: when the metrics fetch of a policy check fails, no violation is    *)
(* appended, no alert is sent, and the pass goes on to the next agent (or  *)
(* ends normally after the last one).                                      *)
C19_FetchFailureSkipped ==
    [][\A p \in Passes :
          PassStep(p, "metrics") /\ ~gseen'.metrics.ok
             => /\ UNCHANGED <<gviolations, glog, galerts>>
                /\ gpc'[p] = NextAgent(p)]_vars

\* C19 witness: the fetch for the first agent failed and the pass is probing
\* the second
C19_Witness ==
    /\ gseen = Seen("periodic", AGENTS[1].name, "200", FetchFailed)
    /\ gpc["periodic"] = PassAt(2, "health")
    /\ gviolations[AGENTS[1].name] = <<>>

(* C20: within a cycle the checks of the targets are independent. The step *)
(* that completes the probe of one target, whatever its outcome, leaves    *)
(* the record, history, alerts and pending check of every other target as  *)
(* they were, and writes the target's own record from its own outcome and  *)
(* its own previous uptime; a pending check ends only by its own probe     *)
(* completing, and a cycle ends only when every target's check has ended.  *)
C20_ProbesIsolated ==
    [][/\ \A t \in WORKERS : Completes(t) =>
             /\ \A u \in WORKERS \ {t} :
                   /\ u \in DOMAIN wstore' <=> u \in DOMAIN wstore
                   /\ u \in DOMAIN wstore => wstore'[u] = wstore[u]
                   /\ whistory'[u] = whistory[u]
                   /\ wtrace'[u] = wtrace[u]
                   /\ walerts'[u] = walerts[u]
                   /\ wrestarts'[u] = wrestarts[u]
                   /\ \A c \in Cycles : wpc'[c][u] = wpc[c][u]
             /\ LET e == LastProbe(t)'
                    status == IF e.out.kind = "exception" THEN "down"
                              ELSE ClassifyResponse(e.out.status_code, e.out.response_time_ms)
                IN /\ wstore'[t].status = status
                   /\ wstore'[t].uptime_percent =
                         IF e.out.kind = "exception"
                         THEN NewUptimeUnreachable(StartedFrom(e))
                         ELSE NewUptime(StartedFrom(e), status)
                   /\ e.out.kind = "response"
                         => whistory'[t][1].status = status
       /\ \A c \in Cycles, u \in WORKERS :
             /\ wpc[c][u] = "probing" /\ wpc'[c][u] # "probing" => Completes(u)
             /\ wpc[c][u] # "idle" /\ wpc'[c][u] = "idle"
                   => \A v \in WORKERS : wpc[c][v] = "done"]_vars

\* C20 witness: in one cycle the probe of one target raised, and the other
\* target, probed after it, was recorded healthy at an untouched 100.00
C20_Witness ==
    \E c \in Cycles, t, u \in WORKERS :
        /\ t # u
        /\ wpc[c][t] \in {"alert", "restart", "done"}
        /\ wpc[c][u] = "done"
        /\ Outs(t) = <<Exception>>
        /\ Outs(u) = <<Response(200, 250)>>
        /\ wstore[t].status = "down" /\ wstore[t].uptime_percent = 9500
        /\ wstore[u].status = "healthy" /\ wstore[u].uptime_percent = 10000
        /\ Len(whistory[u]) = 1 /\ whistory[u][1].timestamp = now

\* a probe outcome that is classified down: an exception, a status other than
\* 200, or a response time of 3000 ms or more
DownOutcome(o) == o.kind = "exception" \/ o.status_code # 200 \/ o.response_time_ms >= 3000

\* the number of completed probes of target t that were classified down
DownProbes(t) == Cardinality({i \in 1..Len(wtrace[t]) : DownOutcome(wtrace[t][i].out)})

(* C21: every completed probe of a target, whatever its outcome, has       *)
(* written the record and pushed exactly one history entry: after k probes *)
(* the history holds min(k, 100) entries.                                  *)
C21_EveryProbePushesHistory ==
    \A t \in WorkerNames :
        /\ Probed(t) => t \in DOMAIN wstore
        /\ Len(whistory[t]) = Min(Len(wtrace[t]), 100)

(* C22: a probe classified down - by a status other than 200, by 3000 ms   *)
(* or more, or by an exception - issues one alert, then one restart, then  *)
(* its check ends; a healthy or degraded probe ends its check with neither;*)
(* and the cycle returns once every check has ended.                       *)
C22_DownAlertsThenRestarts ==
    [][\A c \in Cycles, t \in WORKERS :
          /\ wpc[c][t] = "probing" /\ wpc'[c][t] # "probing"
                => /\ Completes(t)
                   /\ wrestarts'[t] = wrestarts[t]
                   /\ IF DownOutcome(LastProbe(t)'.out)
                      THEN wpc'[c][t] = "alert" /\ walerts'[t] = walerts[t] + 1
                      ELSE wpc'[c][t] = "done" /\ walerts'[t] = walerts[t]
          /\ wpc[c][t] = "alert" /\ wpc'[c][t] # "alert"
                => /\ wpc'[c][t] = "restart"
                   /\ wrestarts'[t] = wrestarts[t] + 1
                   /\ walerts'[t] = walerts[t]
          /\ wpc[c][t] = "restart" /\ wpc'[c][t] # "restart"
                => /\ wpc'[c][t] = "done"
                   /\ wrestarts'[t] = wrestarts[t]
                   /\ walerts'[t] = walerts[t]
          /\ wpc[c][t] = "done" /\ wpc'[c][t] # "done"
                => \A u \in WORKERS : wpc[c][u] = "done" /\ wpc'[c][u] = "idle"]_vars

\* C22 witness: a 503 answered in 250 ms was alerted and restarted once, and
\* the cycle has returned
C22_Witness ==
    \E t \in WORKERS :
        /\ Outs(t) = <<Response(503, 250)>>
        /\ wstore[t].status = "down"
        /\ walerts[t] = 1
        /\ wrestarts[t] = 1
        /\ CycleIdle("periodic")

(* C24: an alert for a target is issued only in a step that has written    *)
(* the record with the status down and the uptime of the probe that        *)
(* caused it, and a restart is started only by a check whose alert has     *)
(* been sent.                                                              *)
C24_PersistBeforeNotify ==
    [][\A t \in WORKERS :
          /\ walerts'[t] # walerts[t]
                => /\ Completes(t)
                   /\ t \in DOMAIN wstore'
                   /\ wstore'[t].status = "down"
                   /\ wstore'[t].uptime_percent = Fmt2(StartedFrom(LastProbe(t)') * 95)
                   /\ \E c \in Cycles : wpc[c][t] = "probing" /\ wpc'[c][t] = "alert"
          /\ wrestarts'[t] # wrestarts[t]
                => /\ t \in DOMAIN wstore
                   /\ \E c \in Cycles : wpc[c][t] = "alert" /\ wpc'[c][t] = "restart"]_vars

\* C24 witness: the first probe of a target raised; its record says down at
\* 95.00 and the alert is being sent
C24_Witness ==
    \E c \in Cycles, t \in WORKERS :
        /\ wpc[c][t] = "alert"
        /\ Outs(t) = <<Exception>>
        /\ wstore[t].status = "down" /\ wstore[t].uptime_percent = 9500
        /\ walerts[t] = 1 /\ wrestarts[t] = 0

(* C28: cycles do not exclude each other. A cycle that is not running can  *)
(* start while the other one is in flight, every probe classified down is  *)
(* alerted, and every alert that has been sent is followed by its own      *)
(* restart: restarts are never merged or skipped.                          *)
C28_NoRemediationGuard ==
    /\ \A c \in Cycles :
          CycleIdle(c) /\ nprobes + 2 * Cardinality(WORKERS) <= MaxCycleProbes
             => ENABLED perform_health_checks(c, MaxCycleProbes)
    /\ \A t \in WORKERS :
          /\ walerts[t] = DownProbes(t)
          /\ wrestarts[t] = walerts[t] - Cardinality({c \in Cycles : wpc[c][t] = "alert"})

\* C28 witness: both cycles are restarting one target at the same time while
\* both still have a probe of the other target in flight
C28_Witness ==
    \E t, u \in WORKERS :
        /\ t # u
        /\ \A c \in Cycles : wpc[c][t] = "restart" /\ wpc[c][u] = "probing"
        /\ Len(wtrace[t]) = 2
        /\ wrestarts[t] = 2

(* C27: a cycle or pass starts the operation of every target or agent at   *)
(* once: whenever a worker cycle is in flight the check of every target    *)
(* has been started, and whenever a guardian pass is in flight the check   *)
(* of every agent has been started.                                        *)
C27_FanOutConcurrent ==
    /\ \A c \in Cycles : ~CycleIdle(c) => \A t \in WORKERS : wpc[c][t] # "idle"
    /\ \A p \in Passes : gpc[p].step # "idle" => \A i \in DOMAIN AGENTS : i <= gpc[p].agent

(* C29: one probe moves a target's uptime by at most 5.00 in either        *)
(* direction; a target at 100.00 is at 95.00 or above after one probe.     *)
C29_UptimeStepBounded ==
    [][\A t \in WORKERS : Completes(t) =>
          LET prev == StartedFrom(LastProbe(t)')
              new == wstore'[t].uptime_percent
          IN /\ new - prev <= 500
             /\ prev - new <= 500
             /\ prev = 10000 => new >= 9500]_vars

\* C29 witness: a never-checked target, taken to be at 100.00, answered 503
\* once and is at 95.00
C29_Witness ==
    \E t \in WORKERS :
        /\ Probed(t)
        /\ ~LastProbe(t).had
        /\ LastProbe(t).out = Response(503, 250)
        /\ wstore[t].uptime_percent = 9500

\* a loop that is between two cycles, and whether the run lets it start one
LoopRests(s) == loop[s] \in {"idle", "backoff"}
LoopMayStart(s) ==
    IF s = "worker" THEN nprobes + Cardinality(WORKERS) <= MaxLoopProbes
    ELSE npasses < MaxPasses

C25_DeliveryNeverBlocks ==
    [][/\ \A c \in Cycles, t \in WORKERS :
             wpc[c][t] = "alert" /\ wpc'[c][t] # "alert"
                => /\ delivered'.by = "worker" /\ delivered'.outcome \in DeliveryOutcomes
                   /\ wpc'[c][t] = "restart"
                   /\ wrestarts'[t] = wrestarts[t] + 1
                   /\ walerts' = walerts
       /\ \A p \in Passes :
             PassStep(p, "flag_alert") \/ PassStep(p, "policy_alert")
                => /\ delivered'.by = "pass" /\ delivered'.outcome \in DeliveryOutcomes
                   /\ gpc'[p] = NextAgent(p)
                   /\ galerts' = galerts
       /\ gstop.step = "alert" /\ gstop'.step # "alert"
             => /\ delivered'.by = "stop" /\ delivered'.outcome \in DeliveryOutcomes
                /\ gresp' = [agent |-> gstop.agent, code |-> 200]
                /\ gstop' = StopIdle
                /\ gstore' = gstore
                /\ galerts' = galerts]_vars

\* C25 witness: the alert of an accepted stop could not be delivered, and the
\* request was answered 200 with the agent stopped, after a worker check that
\* was down started its restart and a pass went on from the same agent
C25_Witness ==
    /\ delivered = [by |-> "stop", outcome |-> "failed"]
    /\ gstop = StopIdle
    /\ gresp = [agent |-> AGENTS[1].name, code |-> 200]
    /\ gstore[AGENTS[1].name].status = "stopped"
    /\ \E t \in WORKERS : walerts[t] = 1 /\ wrestarts[t] = 1
    /\ galerts[AGENTS[1].name] = 2

(* C26: while the cycle or pass started by a manual trigger is in flight,  *)
(* the trigger has already been answered: no probe of it runs while the    *)
(* caller of /check/all or /monitor/all still waits.                       *)
C26_ManualTriggersAnswerFirst ==
    /\ ~CycleIdle("manual") => "worker" \notin waiting
    /\ gpc["manual"] # PassIdle => "guardian" \notin waiting

\* the violations retained in the store that lie within the window of h
\* hours ending at the present
Retained(h) ==
    UNION {{Listed(a, gviolations[a][k]) :
               k \in {n \in 1..Len(gviolations[a]) : gviolations[a][n].timestamp >= now - h}} :
           a \in AgentNames}

(* C30: the answer to /violations?hours=N holds exactly the retained       *)
(* violations of all registered agents whose timestamp is not older than N *)
(* hours, each once, ordered newest-first across agents.                   *)
C30_ListingExactNewestFirst ==
    [][vresp' # vresp =>
          LET body == vresp'.body
          IN /\ {body[i] : i \in 1..Len(body)} = Retained(vresp'.hours)
             /\ Len(body) = Cardinality(Retained(vresp'.hours))
             /\ \A i, j \in 1..Len(body) : i < j => body[i].timestamp >= body[j].timestamp]_vars

\* C30 witness: an answer that lists a violation of the second agent before
\* an older one of the first agent and leaves out a retained violation that
\* is older than everything it lists
C30_Witness ==
    /\ vresp # NoListing
    /\ Len(vresp.body) >= 2
    /\ vresp.body[1].agent = AGENTS[2].name
    /\ vresp.body[2].agent = AGENTS[1].name
    /\ \E a \in AgentNames : \E k \in 1..Len(gviolations[a]) :
          \A i \in 1..Len(vresp.body) : gviolations[a][k].timestamp < vresp.body[i].timestamp

\* a step of a read endpoint: a response is being sent
Answers(endpoint) == qresp' # qresp /\ qresp'.endpoint = endpoint

\* the registered names whose stored status is s
WorkersIn(s) == {t \in WORKERS : t \in DOMAIN wstore /\ wstore[t].status = s}
AgentsIn(s) == {a \in AgentNames : a \in DOMAIN gstore /\ gstore[a].status = s}

(* C31: a step of /workers, /workers/{name}, /agents, /violations or       *)
(* /metrics changes no StatusRecord, history or violation sequence; the    *)
(* counts by state of /metrics are the numbers of registered targets or    *)
(* agents whose stored status has that value, and the 24 h totals of the   *)
(* guardian are the counts over the stored violation sequences.            *)
C31_QueriesReadOnly ==
    [][/\ qresp' # qresp \/ vresp' # vresp
            => UNCHANGED <<wstore, whistory, gstore, gviolations>>
       /\ Answers("worker/metrics")
            => /\ qresp'.body.total_workers = Cardinality(WORKERS)
               /\ \A s \in {"healthy", "degraded", "down"} :
                     qresp'.body[s] = Cardinality(WorkersIn(s))
       /\ Answers("guardian/metrics")
            => /\ qresp'.body.total_agents = Cardinality(AgentNames)
               /\ \A s \in {"healthy", "suspicious", "stopped"} :
                     qresp'.body[s] = Cardinality(AgentsIn(s))
               /\ qresp'.body.total_violations_24h = Cardinality(Retained(MetricsWindow))
               /\ qresp'.body.critical_alerts_24h =
                     Cardinality({v \in Retained(MetricsWindow) : v.severity = "critical"})]_vars

\* C31 witness: the guardian answers /metrics with one stopped agent and 24 h
\* totals that leave out older violations and count a warning
C31_Witness ==
    /\ qresp.endpoint = "guardian/metrics"
    /\ qresp.body.stopped = 1
    /\ qresp.body.healthy = 2
    /\ qresp.body.critical_alerts_24h > 0
    /\ qresp.body.critical_alerts_24h < qresp.body.total_violations_24h
    /\ qresp.body.total_violations_24h < Cardinality(Retained(VPrefill))

(* C32: /workers/{name} answers 404 exactly when the store holds no record *)
(* of the name; otherwise it answers the record and at most 20 history     *)
(* entries, the 20 most recently pushed ones, newest first.                *)
C32_WorkerDetail ==
    [][Answers("/workers/{worker_name}") =>
          LET name == qresp'.arg
          IN /\ qresp'.code = 404 <=> name \notin DOMAIN wstore
             /\ qresp'.code # 404 =>
                   /\ qresp'.code = 200
                   /\ qresp'.body.status = wstore[name]
                   /\ Len(qresp'.body.history) <= 20
                   /\ qresp'.body.history = Reverse(LastK(wlog[name], 20))]_vars

\* C32 witness: the detail of a target probed in this run, with 20 of its
\* more than 20 history entries, the newest being the one of the last probe
C32_Witness ==
    /\ qresp.endpoint = "/workers/{worker_name}"
    /\ qresp.code = 200
    /\ Probed(qresp.arg)
    /\ Len(whistory[qresp.arg]) > 20
    /\ Len(qresp.body.history) = 20
    /\ qresp.body.history[1].timestamp > Prefill

(* C34: the uptime_percent of the worker /metrics is the arithmetic mean,  *)
(* over the registered targets, of the uptime_percent /workers reports for *)
(* each, a target without a record counting with 100.0.                    *)
C34_AverageUptimeIsMean ==
    [][Answers("worker/metrics") =>
          /\ qresp'.body.uptime_percent.den = Cardinality(WORKERS)
          /\ qresp'.body.uptime_percent.num =
                Total([t \in WORKERS |-> WorkerView(t).uptime_percent], WORKERS)]_vars

(* C33: an unbroken run of healthy or degraded probes brings the stored    *)
(* uptime to 100.00 and an unbroken run of down probes brings it to 0.00.  *)
(* The stored value never moves away from the limit, so the run reaches    *)
(* the limit exactly when every probe that starts short of it moves the    *)
(* stored value strictly towards it.                                       *)
C33_UnbrokenRunsReachTheLimit ==
    [][\A t \in WORKERS :
          Completes(t) =>
             LET e == wtrace'[t][Len(wtrace'[t])]
                 prev == StartedFrom(e)
                 new == wstore'[t].uptime_percent
             IN /\ DownOutcome(e.out) /\ prev > 0 => new < prev
                /\ ~DownOutcome(e.out) /\ prev < SeedUptime => new > prev]_vars

\* the EMA step applied to the outcomes one after the other, from the seed
RECURSIVE Sequential(_)
Sequential(outs) ==
    IF outs = <<>> THEN SeedUptime
    ELSE LET prev == Sequential(SubSeq(outs, 1, Len(outs) - 1))
             o == outs[Len(outs)]
         IN IF o.kind = "exception" THEN NewUptimeUnreachable(prev)
            ELSE NewUptime(prev, ClassifyResponse(o.status_code, o.response_time_ms))

ResponsesOf(t) == {i \in 1..Len(wtrace[t]) : wtrace[t][i].out.kind = "response"}

(* C35: no update of a target is lost, also when the manual and the        *)
(* periodic cycle probe it together: after k completed probes the stored   *)
(* uptime is the k-fold application of the EMA step in completion order,   *)
(* every probe having read the value its predecessor wrote, and the        *)
(* history holds one entry per probe that received a response.             *)
C35_NoLostUpdate ==
    \A t \in WORKERS :
        /\ Probed(t) <=> t \in DOMAIN wstore
        /\ Probed(t) => wstore[t].uptime_percent = Sequential(Outs(t))
        /\ \A i \in 2..Len(wtrace[t]) :
              wtrace[t][i].had /\ wtrace[t][i].stored = Sequential(SubSeq(Outs(t), 1, i - 1))
        /\ Len(wlog[t]) = Cardinality(ResponsesOf(t))
        /\ Len(whistory[t]) = Cardinality(ResponsesOf(t))

\* C35 witness: the probe of one cycle raised and, while its check was still
\* sending the alert, the probe of the other cycle was answered in 250 ms:
\* 100.00 -> 95.00 -> 95.25 and one history entry
C35_Witness ==
    \E c, d \in Cycles, t \in WORKERS :
        /\ c # d
        /\ wpc[c][t] = "alert"
        /\ wpc[d][t] = "done"
        /\ Outs(t) = <<Exception, Response(200, 250)>>
        /\ wstore[t].uptime_percent = 9525
        /\ Len(whistory[t]) = 1

\* the level that goes with a status
LevelOf(status) ==
    IF status = "healthy" THEN "low"
    ELSE IF status = "suspicious" THEN "high"
    ELSE IF status = "stopped" THEN "critical"
    ELSE "none"

(* C36: every step leaves every agent record with the threat_level of its  *)
(* status - healthy with low, suspicious with high, stopped with critical, *)
(* never medium - and a step that writes one of the two fields writes the  *)
(* record with both.                                                       *)
C36_ThreatFollowsStatus ==
    [][\A a \in AgentNames :
          /\ a \in DOMAIN gstore' =>
                /\ gstore'[a].threat_level = LevelOf(gstore'[a].status)
                /\ gstore'[a].threat_level # "medium"
          /\ a \in DOMAIN gstore /\ gstore'[a].status # gstore[a].status
                => gstore'[a].threat_level # gstore[a].threat_level
          /\ a \in DOMAIN gstore => a \in DOMAIN gstore']_vars

\* C36 witness: the three pairs side by side
C36_Witness ==
    \E a, b, c \in DOMAIN gstore :
        /\ gstore[a] = [status |-> "healthy", threat_level |-> "low"]
        /\ gstore[b] = [status |-> "suspicious", threat_level |-> "high"]
        /\ gstore[c] = [status |-> "stopped", threat_level |-> "critical"]

(* C37: in every state in which a request or coroutine can run, an agent   *)
(* whose stored status is stopped has an emergency_stop violation in its   *)
(* violation sequence; it is the newest entry, so the cap of 100 cannot    *)
(* have evicted it.                                                        *)
C37_StoppedHasItsViolation ==
    \A a \in DOMAIN gstore :
        gstore[a].status = "stopped" =>
            /\ \E k \in 1..Len(gviolations[a]) : gviolations[a][k].policy = "emergency_stop"
            /\ gviolations[a][1].policy = "emergency_stop"

\* C37 witness: a stopped agent whose sequence is full and has lost older
\* entries to the cap
C37_Witness ==
    \E a \in DOMAIN gstore :
        /\ gstore[a].status = "stopped"
        /\ Len(gviolations[a]) = ViolationsMax + 1
        /\ Len(glog[a]) > ViolationsMax + 1
        /\ gviolations[a][1].policy = "emergency_stop"

\* the violations of agent a that a pass logged
PassViolations(a) == {k \in 1..Len(glog[a]) : glog[a][k].policy # "emergency_stop"}

\* the passes that have come to the i-th agent
Reached(i) ==
    IF gpc["periodic"].step = "idle" \/ gpc["periodic"].agent >= i
    THEN npasses ELSE npasses - 1

\* the policy of the check that the type of an agent selects
PolicyOfType(type) ==
    IF type = "orchestration" THEN "max_deployments_per_hour"
    ELSE IF type = "analytics" THEN "max_cost_per_day"
    ELSE "max_failed_health_checks"

(* C38: a pass logs at most one violation per agent, that of the policy    *)
(* check its type selects: the violations the passes logged for an agent   *)
(* are at most as many as the passes that came to it, so that one pass    *)
(* over n agents adds at most n violations; and a step of a pass adds at   *)
(* most one violation, to the agent it is at.                              *)
C38_OneViolationPerAgentAndPass ==
    [][\A i \in DOMAIN AGENTS :
          LET a == AGENTS[i].name
          IN /\ Cardinality(PassViolations(a))' <= Reached(i)'
             /\ Reached(i)' <= npasses'
             /\ \A k \in PassViolations(a)' : glog'[a][k].policy = PolicyOfType(AGENTS[i].type)
             /\ (gpc'["periodic"] # gpc["periodic"] /\ Len(glog'[a]) # Len(glog[a]))
                   => /\ Len(glog'[a]) = Len(glog[a]) + 1
                      /\ gpc["periodic"].agent = i]_vars

\* C38 witness: a finished pass in which every agent broke its policy
C38_Witness ==
    /\ npasses = 1
    /\ gpc["periodic"].step = "idle"
    /\ \A a \in AgentNames : Cardinality(PassViolations(a)) = 1

\* a step in which the periodic pass ends its check of the agent it is at
LeavesAgent ==
    /\ gpc["periodic"].step \in {"flag_alert", "metrics", "policy_alert"}
    /\ gpc'["periodic"] # gpc["periodic"]
    /\ gpc'["periodic"].step \in {"health", "closing"}

(* C39: a StatusRecord, once written, stays in the store and never shows   *)
(* the default unknown: the record of a probed target has status healthy,  *)
(* degraded or down, the record of an agent that was checked or stopped    *)
(* has status healthy, suspicious or stopped; and a worker record with a   *)
(* non-empty error has status down and response_time_ms 0.                 *)
C39_RecordsStay ==
    [][/\ \A t \in WorkerNames :
             /\ t \in DOMAIN wstore => t \in DOMAIN wstore'
             /\ Completes(t) => t \in DOMAIN wstore'
             /\ t \in DOMAIN wstore' =>
                   /\ wstore'[t].status \in {"healthy", "degraded", "down"}
                   /\ wstore'[t].error # "" =>
                         wstore'[t].status = "down" /\ wstore'[t].response_time_ms = 0
       /\ \A a \in AgentNames :
             /\ a \in DOMAIN gstore => a \in DOMAIN gstore'
             /\ a \in DOMAIN gstore' => gstore'[a].status \in {"healthy", "suspicious", "stopped"}
       /\ LeavesAgent => AgentOf("periodic").name \in DOMAIN gstore'
       /\ StopAccepted => StopName \in DOMAIN gstore']_vars

\* C39 witness: a target recorded healthy and then, after a probe that
\* raised, down with an error and response_time_ms 0
C39_Witness ==
    \E t \in WORKERS :
        /\ Len(wtrace[t]) = 2
        /\ wtrace[t][1].out = Response(200, 250)
        /\ wtrace[t][2].out = Exception
        /\ wstore[t].status = "down"
        /\ wstore[t].error # ""
        /\ wstore[t].response_time_ms = 0

====
